---- MODULE Spec2Model ----
(***************************************************************************)
(* The ServiceExport controller of pkg/controllers/serviceexport: one      *)
(* reconciliation pass at a time (the controller is built without options, *)
(* so it runs a single worker), each store round trip of the pass a step,  *)
(* against a member store (ServiceExports, Services) and a hub store       *)
(* (InternalServiceExports).  Between any two steps the environment may    *)
(* act: a user deletes or creates a ServiceExport, a Service changes, a    *)
(* store call fails, the process crashes.                                  *)
(*                                                                         *)
(* The EndpointSlice controller of pkg/controllers/endpointslice is a      *)
(* second single worker, modelled the same way under SliceSpec, where the  *)
(* ServiceExports it reads are changed by the environment; its decision    *)
(* function alone is exercised under DecisionSpec.                         *)
(*                                                                         *)
(* The stores outlive the controller process.  At start the hub may hold   *)
(* InternalServiceExports named NAMESPACE-NAME (controller.go:205-207),    *)
(* each for a ServiceExport that carries the cleanup finalizer             *)
(* (controller.go:53-54).                                                  *)
(***************************************************************************)
EXTENDS Integers, Sequences, FiniteSets, TLC

VARIABLES
    svcExports,         \* member store: ServiceExport of each identity, or NoObj
    svcs,               \* member store: Service of each identity, or NoObj
    hub,                \* hub store: InternalServiceExport at each key, or NoObj
    hubAcceptsUnnamed,  \* whether the hub store stores an object created without a name
    pc,                 \* position of the worker in Reconcile
    req,                \* the request being reconciled
    svcExport,          \* Reconcile's local svcExport
    svc,                \* Reconcile's local svc
    internalSvcExport,  \* Reconcile's local internalSvcExport
    hubGetErr,          \* err of the hub Get at controller.go:103
    branch,             \* which path the pass took
    stale,              \* the store's ServiceExport changed since the pass read it
    err,                \* what the last pass returned: TRUE for an error
    faults,             \* store errors and crashes still to come
    hubOps,             \* history: hub calls issued by the current pass
    quiet,              \* history: no external change since the pass began
    hadFinalizer,       \* history: the intent carried the finalizer when the pass began
    markerWrite,        \* history: outcome of addCleanupFinalizer in this pass
    condsBefore,        \* history: the intent's conditions when the pass began
    prevRun,            \* history: the projection after the last two quiet passes
    slices,             \* member store: EndpointSlice of each identity, or NoObj
    hubSlices,          \* hub store: EndpointSliceExport at each key, or NoObj
    spc,                \* position of the worker in the EndpointSlice Reconcile
    sreq,               \* the request that Reconcile is handling
    endpointSlice,      \* Reconcile's local endpointSlice
    svcExportGet,       \* what the Get of the ServiceExport answered (controller.go:238)
    fleetUniqueName,    \* Reconcile's local fleetUniqueName
    createOrUpdateGet,  \* what the Get inside CreateOrUpdate answered
    serr,               \* what the last EndpointSlice pass returned: TRUE for an error
    decided,            \* history: op and err of shouldSkipOrUnexportEndpointSlice
    prevDecided,        \* history: inputs and op of the decision before this one
    copyCurrent,        \* the pass's copy holds the resource version the store holds
    sameObject,         \* the pass's copy holds the UID of the object the store holds
    queue,              \* the requests waiting in the work queue of the controller
    sliceOps,           \* history: store writes issued by the current pass
    redo                \* history: an undisturbed pass, and one that repeats an
                        \* unexport that was cut short

exportLocals == <<svcs, hub, hubAcceptsUnnamed, pc, req, svcExport, svc,
                  internalSvcExport, hubGetErr, branch, stale, err, hubOps,
                  quiet, hadFinalizer, markerWrite, condsBefore, prevRun>>

sliceVars == <<slices, hubSlices, spc, sreq, endpointSlice, svcExportGet,
               fleetUniqueName, createOrUpdateGet, serr, decided, prevDecided,
               copyCurrent, sameObject, queue, sliceOps, redo>>

vars == <<svcExports, faults, exportLocals, sliceVars>>

(***************************************************************************)
(* Bounds and domains                                                      *)
(***************************************************************************)
MaxFaults == 2

Ids == {[namespace |-> "default", name |-> "store"]}

PortLists == {<<80>>, <<80, 443>>}

NoObj == [kind |-> "NotFound"]

NoRun == [kind |-> "NoRun"]

hubNS == "fleet-member-1"

svcExportCleanupFinalizer == "networking.fleet.azure.com/svc-export-cleanup"

ServiceExportValid == "Valid"

\* The Services the environment may put in the member store.
SvcValues ==
    {[type |-> "ClusterIP", deletionTimestamp |-> FALSE, ports |-> p] : p \in PortLists}
    \cup {[type |-> "ClusterIP", deletionTimestamp |-> TRUE, ports |-> <<80>>],
          [type |-> "ExternalName", deletionTimestamp |-> FALSE, ports |-> <<80>>]}

\* A ServiceExport as a user creates it.
NewSvcExport == [finalizers |-> <<>>, deletionTimestamp |-> FALSE, conditions |-> <<>>]

\* A finalizer of another controller.
otherFinalizer == "example.com/other"

\* A condition of another controller.
otherCondition ==
    [type |-> "Conflict", status |-> "False", reason |-> "NoConflictFound", message |-> ""]

\* The ServiceExport se, as it is or held by the finalizer of another
\* controller as well.
withOrWithoutOtherFinalizer(se) ==
    {se, [se EXCEPT !.finalizers = <<otherFinalizer>> \o @]}

\* The zero value of InternalServiceExport (controller.go:101).
ZeroInternalSvcExport == [namespace |-> "", name |-> "", ports |-> <<>>]

(***************************************************************************)
(* Helpers of the package                                                  *)
(***************************************************************************)
hasSvcExportCleanupFinalizer(se) ==
    \E i \in 1..Len(se.finalizers) : se.finalizers[i] = svcExportCleanupFinalizer

isSvcExportCleanupNeeded(se) ==
    hasSvcExportCleanupFinalizer(se) /\ se.deletionTimestamp

isSvcDeleted(s) == s # NoObj /\ s.deletionTimestamp

isSvcEligibleForExport(s) == s.type # "ExternalName"

formatInternalSvcExportName(id) == id.namespace \o "-" \o id.name

\* The key Reconcile and unexportSvc address on the hub.
internalSvcExportKey(id) == <<hubNS, formatInternalSvcExportName(id)>>

ObjKey(o) == <<o.namespace, o.name>>

HubKeys == {internalSvcExportKey(id) : id \in Ids} \cup {ObjKey(ZeroInternalSvcExport)}

(***************************************************************************)
(* Pure parts of the reconciler                                            *)
(***************************************************************************)
\* Reconcile's switch on the Service and the eligibility check.
svcCase(s) ==
    IF s = NoObj \/ isSvcDeleted(s) THEN "notFound"
    ELSE IF ~isSvcEligibleForExport(s) THEN "ineligible"
    ELSE "export"

\* Mutant: Reconcile takes every error of the Get of the Service for not found.
getSvcCase_ErrorIsNotFound(failed, s) == IF failed THEN "notFound" ELSE svcCase(s)

\* controller.go:61-76: the switch on the outcome of the Get of the Service;
\* failed is an error other than not found.
getSvcCase(failed, s) == IF failed THEN "error" ELSE svcCase(s)

\* Mutant: with the Service gone or ineligible Reconcile removes the finalizer
\* without calling unexportSvc first.
afterSvcCase_SkipsHubDelete(c, se) ==
    IF c \in {"notFound", "ineligible"}
    THEN IF hasSvcExportCleanupFinalizer(se) THEN "removeFinalizer" ELSE "markInvalid"
    ELSE IF ~hasSvcExportCleanupFinalizer(se) THEN "addCleanupFinalizer" ELSE "hubGet"

\* Where Reconcile goes once the Service's case is known.
afterSvcCase(c, se) ==
    IF c \in {"notFound", "ineligible"}
    THEN IF hasSvcExportCleanupFinalizer(se) THEN "unexportSvc" ELSE "markInvalid"
    ELSE IF ~hasSvcExportCleanupFinalizer(se) THEN "addCleanupFinalizer" ELSE "hubGet"

\* Mutant: unexportSvc goes on to remove the finalizer whatever the Delete answered.
unexportSvcAfterDelete_ErrorIgnored(outcome) ==
    IF outcome \in {"ok", "error"} THEN "removeFinalizer" ELSE "returnNil"

\* Mutant: unexportSvc returns nil for every error of the Delete, not only not-found.
unexportSvcAfterDelete_AllErrorsNil(outcome) ==
    IF outcome = "ok" THEN "removeFinalizer" ELSE "returnNil"

\* unexportSvc after its hub Delete: outcome is "ok", "notFound" or "error".
unexportSvcAfterDelete(outcome) ==
    IF outcome = "ok" THEN "removeFinalizer"
    ELSE IF outcome = "notFound" THEN "returnNil"
    ELSE "returnErr"

\* Mutant: Reconcile drops the error of addCleanupFinalizer and exports.
afterAddCleanupFinalizer_ErrorDropped(ok) == "hubGet"

\* Reconcile were it to issue the Update again when it fails.
afterAddCleanupFinalizer_Retries(ok) == IF ok THEN "hubGet" ELSE "addCleanupFinalizer"

\* Reconcile after addCleanupFinalizer returned: ok is err == nil.
afterAddCleanupFinalizer(ok) == IF ok THEN "hubGet" ELSE "returnErr"

\* Mutant: removeSvcExportCleanupFinalizer writes an empty finalizer list.
removeFinalizerList_DropsAll(fs) == <<>>

\* The finalizers removeSvcExportCleanupFinalizer writes.
removeFinalizerList(fs) == SelectSeq(fs, LAMBDA f : f # svcExportCleanupFinalizer)

\* The finalizers addCleanupFinalizer writes.
addFinalizerList(fs) == Append(fs, svcExportCleanupFinalizer)

invalidCondition(reason, message) ==
    [type |-> ServiceExportValid, status |-> "False", reason |-> reason, message |-> message]

keepOtherConditions(conds) == SelectSeq(conds, LAMBDA c : c.type # ServiceExportValid)

\* Mutant: markSvcExportAsInvalidSvcNotFound writes the other marking's reason.
markSvcExportAsInvalidSvcNotFound_WrongReason(conds, id) ==
    Append(keepOtherConditions(conds),
           invalidCondition("ServiceIneligible",
               "service " \o id.namespace \o "/" \o id.name \o " is not found"))

\* The conditions markSvcExportAsInvalidSvcNotFound writes.
markSvcExportAsInvalidSvcNotFound(conds, id) ==
    Append(keepOtherConditions(conds),
           invalidCondition("ServiceNotFound",
               "service " \o id.namespace \o "/" \o id.name \o " is not found"))

\* Mutant: markSvcExportAsInvalidSvcIneligible appends without dropping the
\* Valid condition that is already there.
markSvcExportAsInvalidSvcIneligible_Appends(conds, id) ==
    Append(conds,
           invalidCondition("ServiceIneligible",
               "service " \o id.namespace \o "/" \o id.name \o " is not eligible for export"))

\* The conditions markSvcExportAsInvalidSvcIneligible writes.
markSvcExportAsInvalidSvcIneligible(conds, id) ==
    Append(keepOtherConditions(conds),
           invalidCondition("ServiceIneligible",
               "service " \o id.namespace \o "/" \o id.name \o " is not eligible for export"))

\* Mutant: the Service's ports are appended to the ports the hub Get returned.
hubWriteObject_PortsAppended(ise, s, se) == [ise EXCEPT !.ports = @ \o s.ports]

\* The object Reconcile hands to hubClient.Create or hubClient.Update:
\* updateInternalSvcExport is given svc and svcExport, never internalSvcExport,
\* so the object is what the hub Get left in it.
hubWriteObject(ise, s, se) == ise

\* Create when the hub Get said not found, Update in every other case.
hubWriteOp(getErr) == IF getErr = "notFound" THEN "create" ELSE "update"

(***************************************************************************)
(* The stores                                                              *)
(***************************************************************************)
\* What the member store keeps of an updated ServiceExport: an object that is
\* being deleted and has no finalizer left is removed.
Stored(obj) == IF obj.deletionTimestamp /\ obj.finalizers = <<>> THEN NoObj ELSE obj

\* memberClient.Update of the pass's ServiceExport succeeds.
MemberUpdateOk(obj) ==
    /\ svcExports[req] # NoObj
    /\ ~stale
    /\ svcExports' = [svcExports EXCEPT ![req] = Stored(obj)]
    /\ faults' = faults

\* memberClient.Update fails: not found, conflict, or a store error.
MemberUpdateFails ==
    /\ \/ (svcExports[req] = NoObj \/ stale) /\ faults' = faults
       \/ ~(svcExports[req] = NoObj \/ stale) /\ faults > 0 /\ faults' = faults - 1
    /\ svcExports' = svcExports

\* memberClient.Update is refused because it adds a finalizer to a
\* ServiceExport that is being deleted: a store may forbid that.
MemberUpdateForbidden(obj) ==
    /\ svcExports[req] # NoObj
    /\ ~stale
    /\ obj.deletionTimestamp
    /\ UNCHANGED <<svcExports, faults>>

\* Whether hubClient.Create of obj is accepted.
HubCreateAccepted(obj) ==
    /\ hub[ObjKey(obj)] = NoObj
    /\ obj.name # "" \/ hubAcceptsUnnamed

\* Whether hubClient.Update of obj is accepted.
HubUpdateAccepted(obj) == hub[ObjKey(obj)] # NoObj

HubOp(op, key, outcome) == [op |-> op, key |-> key, outcome |-> outcome]

(***************************************************************************)
(* The EndpointSlice controller: domains and helpers                       *)
(***************************************************************************)
SliceIds == {[namespace |-> "default", name |-> "store-x7k2p"]}

memberClusterID == "member-1"

endpointSliceUniqueNameLabel == "networking.fleet.azure.com/fleet-unique-name"

LabelServiceName == "kubernetes.io/service-name"

ServiceExportConflict == "Conflict"

\* Resource versions are opaque strings the store renews on every write; they
\* are compared for equality only.  A recorded resource version is kept as
\* what it equals: the one the store holds now ("store"), the one the pass's
\* copy holds when that is no longer the store's ("copy"), or neither.
ResourceVersions == {"store", "copy", "other"}

\* UIDs are opaque strings the store gives an object when it is created; they
\* are kept the same way: the one of the object in the store, the one of the
\* pass's copy when that object is no longer in the store, or neither.
UIDs == {"store", "copy", "other"}

formatFleetUniqueName(clusterID, sid) ==
    clusterID \o "-" \o sid.namespace \o "-" \o sid.name

\* A name an earlier format gave the object.
LegacyName == "member-1-default-store-x7k2p-q9w8e"

\* The values a unique-name label may hold: the formatted name, and a name
\* assigned to the object under an earlier format.
UniqueNames ==
    {formatFleetUniqueName(memberClusterID, sid) : sid \in SliceIds}
    \cup {LegacyName}

\* Mutant: the EndpointSliceExport is addressed by the formatted name, whatever
\* name the label holds.
endpointSliceExportKey_Formatted(name) ==
    <<hubNS, formatFleetUniqueName(memberClusterID, CHOOSE sid \in SliceIds : TRUE)>>

endpointSliceExportKey(name) == <<hubNS, name>>

SliceHubKeys == {endpointSliceExportKey(n) : n \in UniqueNames \cup {""}}

\* Label maps are functions from the keys present to their values.
NoLabels == [k \in {} |-> ""]

HasLabel(labels, k) == k \in DOMAIN labels

WithLabel(labels, k, v) == [x \in DOMAIN labels \cup {k} |-> IF x = k THEN v ELSE labels[x]]

WithoutLabel(labels, k) == [x \in DOMAIN labels \ {k} |-> labels[x]]

\* Reading a label: a key that is missing reads as the empty string.
LabelValue(labels, k) == IF HasLabel(labels, k) THEN labels[k] ELSE ""

\* The label maps of the EndpointSlice of sid: in use by the Service "store" or
\* by none, with or without a unique name.
SliceLabelSets ==
    LET bySvc == {NoLabels, WithLabel(NoLabels, LabelServiceName, "store")} IN
       bySvc \cup {WithLabel(l, endpointSliceUniqueNameLabel, n) : l \in bySvc, n \in UniqueNames}

SliceValues ==
    [labels : SliceLabelSets, deletionTimestamp : BOOLEAN, addressType : {"IPv4", "IPv6"}]

isEndpointSlicePermanentlyUnexportable(es) == es.addressType # "IPv4"

NilCondition == [kind |-> "nil"]

\* meta.FindStatusCondition: the first condition of the type, or nil.
FindStatusCondition(conds, t) ==
    IF \E i \in 1..Len(conds) : conds[i].type = t
    THEN conds[CHOOSE i \in 1..Len(conds) :
                  /\ conds[i].type = t
                  /\ \A j \in 1..(i - 1) : conds[j].type # t]
    ELSE NilCondition

condition(t, status) == [type |-> t, status |-> status, reason |-> "", message |-> ""]

\* The ServiceExports the EndpointSlice controller may find: the conditions
\* are written by other controllers.
IntentConditions ==
    {<<>>,
     <<condition(ServiceExportValid, "False")>>,
     <<condition(ServiceExportValid, "True")>>,
     <<condition(ServiceExportValid, "True"), condition(ServiceExportConflict, "False")>>,
     <<condition(ServiceExportValid, "True"), condition(ServiceExportConflict, "True")>>,
     <<condition(ServiceExportConflict, "False")>>}

IntentValues ==
    {[finalizers |-> <<svcExportCleanupFinalizer>>, deletionTimestamp |-> FALSE,
      conditions |-> c] : c \in IntentConditions}

\* The ServiceExports the environment puts in the member store while the
\* EndpointSlice controller runs: without conditions, valid with no conflict,
\* and valid with no conflict condition yet.
GoverningValues ==
    {v \in IntentValues :
        v.conditions \in
            {<<>>,
             <<condition(ServiceExportValid, "True")>>,
             <<condition(ServiceExportValid, "True"),
               condition(ServiceExportConflict, "False")>>}}

GetError == [kind |-> "Error"]

NotFetched == [kind |-> "NotFetched"]

shouldSkipEndpointSliceOp == "shouldSkipEndpointSliceOp"

shouldUnexportEndpointSliceOp == "shouldUnexportEndpointSliceOp"

noSkipOrUnexportNeededOp == "noSkipOrUnexportNeededOp"

Decision(op, error) == [op |-> op, err |-> error]

None == [kind |-> "None"]

(***************************************************************************)
(* The EndpointSlice controller: pure parts                                *)
(***************************************************************************)
\* Mutant: a conflict condition that is missing counts as no conflict.
isValidWithNoConflict_NilIsNoConflict(se) ==
    LET validCond == FindStatusCondition(se.conditions, ServiceExportValid)
        conflictCond == FindStatusCondition(se.conditions, ServiceExportConflict)
        isValid == (validCond # NilCondition /\ validCond.status = "True")
        hasNoConflict == (conflictCond = NilCondition \/ conflictCond.status = "False")
    IN isValid /\ hasNoConflict

\* controller.go:254-258: the ServiceExport is valid with no conflicts.
isValidWithNoConflict(se) ==
    LET validCond == FindStatusCondition(se.conditions, ServiceExportValid)
        conflictCond == FindStatusCondition(se.conditions, ServiceExportConflict)
        isValid == (validCond # NilCondition /\ validCond.status = "True")
        hasNoConflict == (conflictCond # NilCondition /\ conflictCond.status = "False")
    IN isValid /\ hasNoConflict

\* Mutant: an EndpointSlice whose ServiceExport is not exported is unexported
\* whether or not it has a unique name.
shouldSkipOrUnexportEndpointSlice_NotFoundUnexports(es, got) ==
    LET hasSvcNameLabel == HasLabel(es.labels, LabelServiceName)
        hasUniqueNameLabel == HasLabel(es.labels, endpointSliceUniqueNameLabel)
    IN IF isEndpointSlicePermanentlyUnexportable(es)
       THEN Decision(shouldSkipEndpointSliceOp, FALSE)
       ELSE IF ~hasSvcNameLabel
       THEN IF ~hasUniqueNameLabel
            THEN Decision(shouldSkipEndpointSliceOp, FALSE)
            ELSE Decision(shouldUnexportEndpointSliceOp, FALSE)
       ELSE IF got = NoObj
       THEN Decision(shouldUnexportEndpointSliceOp, FALSE)
       ELSE IF got = GetError
       THEN Decision(noSkipOrUnexportNeededOp, TRUE)
       ELSE IF ~isValidWithNoConflict(got)
       THEN IF hasUniqueNameLabel
            THEN Decision(shouldUnexportEndpointSliceOp, FALSE)
            ELSE Decision(shouldSkipEndpointSliceOp, FALSE)
       ELSE IF hasUniqueNameLabel /\ es.deletionTimestamp
       THEN Decision(shouldUnexportEndpointSliceOp, FALSE)
       ELSE Decision(noSkipOrUnexportNeededOp, FALSE)

\* Mutant: the unique name counts as present only when it is the name
\* formatFleetUniqueName gives.
shouldSkipOrUnexportEndpointSlice_LabelByValue(es, got) ==
    LET hasSvcNameLabel == HasLabel(es.labels, LabelServiceName)
        hasUniqueNameLabel ==
            /\ HasLabel(es.labels, endpointSliceUniqueNameLabel)
            /\ \E sid \in SliceIds : es.labels[endpointSliceUniqueNameLabel] =
                                        formatFleetUniqueName(memberClusterID, sid)
    IN IF isEndpointSlicePermanentlyUnexportable(es)
       THEN Decision(shouldSkipEndpointSliceOp, FALSE)
       ELSE IF ~hasSvcNameLabel
       THEN IF ~hasUniqueNameLabel
            THEN Decision(shouldSkipEndpointSliceOp, FALSE)
            ELSE Decision(shouldUnexportEndpointSliceOp, FALSE)
       ELSE IF got = NoObj
       THEN IF hasUniqueNameLabel
            THEN Decision(shouldUnexportEndpointSliceOp, FALSE)
            ELSE Decision(shouldSkipEndpointSliceOp, FALSE)
       ELSE IF got = GetError
       THEN Decision(noSkipOrUnexportNeededOp, TRUE)
       ELSE IF ~isValidWithNoConflict(got)
       THEN IF hasUniqueNameLabel
            THEN Decision(shouldUnexportEndpointSliceOp, FALSE)
            ELSE Decision(shouldSkipEndpointSliceOp, FALSE)
       ELSE IF hasUniqueNameLabel /\ es.deletionTimestamp
       THEN Decision(shouldUnexportEndpointSliceOp, FALSE)
       ELSE Decision(noSkipOrUnexportNeededOp, FALSE)

\* controller.go:211-282: shouldSkipOrUnexportEndpointSlice, got being what the
\* Get of the ServiceExport answers when the function comes to call it: the
\* ServiceExport, NoObj for not found, GetError for any other error.
shouldSkipOrUnexportEndpointSlice(es, got) ==
    LET hasSvcNameLabel == HasLabel(es.labels, LabelServiceName)
        hasUniqueNameLabel == HasLabel(es.labels, endpointSliceUniqueNameLabel)
    IN IF isEndpointSlicePermanentlyUnexportable(es)
       THEN Decision(shouldSkipEndpointSliceOp, FALSE)
       ELSE IF ~hasSvcNameLabel
       THEN IF ~hasUniqueNameLabel
            THEN Decision(shouldSkipEndpointSliceOp, FALSE)
            ELSE Decision(shouldUnexportEndpointSliceOp, FALSE)
       ELSE IF got = NoObj
       THEN IF hasUniqueNameLabel
            THEN Decision(shouldUnexportEndpointSliceOp, FALSE)
            ELSE Decision(shouldSkipEndpointSliceOp, FALSE)
       ELSE IF got = GetError
       THEN Decision(noSkipOrUnexportNeededOp, TRUE)
       ELSE IF ~isValidWithNoConflict(got)
       THEN IF hasUniqueNameLabel
            THEN Decision(shouldUnexportEndpointSliceOp, FALSE)
            ELSE Decision(shouldSkipEndpointSliceOp, FALSE)
       ELSE IF hasUniqueNameLabel /\ es.deletionTimestamp
       THEN Decision(shouldUnexportEndpointSliceOp, FALSE)
       ELSE Decision(noSkipOrUnexportNeededOp, FALSE)

\* Whether shouldSkipOrUnexportEndpointSlice comes to its Get of the ServiceExport.
needsSvcExport(es) ==
    ~isEndpointSlicePermanentlyUnexportable(es) /\ HasLabel(es.labels, LabelServiceName)

\* Mutant: Reconcile returns the error of a Get that found no EndpointSlice.
afterGetEndpointSlice_NotFoundIsError(outcome) ==
    IF outcome = "ok" THEN "decide" ELSE "returnErr"

\* controller.go:73-82: Reconcile after its Get of the EndpointSlice; the
\* error is passed through client.IgnoreNotFound.
afterGetEndpointSlice(outcome) ==
    IF outcome = "ok" THEN "decide"
    ELSE IF outcome = "notFound" THEN "returnNil"
    ELSE "returnErr"

\* Mutant: Reconcile unexports an EndpointSlice that is to be skipped.
afterDecision_SkipUnexports(d) ==
    IF d.op = shouldSkipEndpointSliceOp THEN "unexportDelete"
    ELSE IF d.op = shouldUnexportEndpointSliceOp THEN "unexportDelete"
    ELSE IF d.err THEN "returnErr"
    ELSE "continue"

\* Mutant: Reconcile goes on to export when the decision carries an error.
afterDecision_ErrorContinues(d) ==
    IF d.op = shouldSkipEndpointSliceOp THEN "returnNil"
    ELSE IF d.op = shouldUnexportEndpointSliceOp THEN "unexportDelete"
    ELSE "continue"

\* Mutant: Reconcile returns after the decision without exporting.
afterDecision_ContinueReturns(d) ==
    IF d.op = shouldSkipEndpointSliceOp THEN "returnNil"
    ELSE IF d.op = shouldUnexportEndpointSliceOp THEN "unexportDelete"
    ELSE IF d.err THEN "returnErr"
    ELSE "returnNil"

\* controller.go:86-107: Reconcile's switch on the op.
afterDecision(d) ==
    IF d.op = shouldSkipEndpointSliceOp THEN "returnNil"
    ELSE IF d.op = shouldUnexportEndpointSliceOp THEN "unexportDelete"
    ELSE IF d.err THEN "returnErr"
    ELSE "continue"

\* Mutant: Reconcile assigns the unique name whether or not the label is there.
afterContinue_AssignsAgain(es) == "assignLabel"

\* Mutant: Reconcile goes to the hub without assigning the unique name.
afterContinue_SkipsAssign(es) == "createOrUpdateGet"

\* controller.go:110-119: the unique name is read from the label, or assigned.
afterContinue(es) ==
    IF HasLabel(es.labels, endpointSliceUniqueNameLabel)
    THEN "createOrUpdateGet" ELSE "assignLabel"

\* Mutant: unexportEndpointSlice removes the label whatever the Delete answered.
unexportEndpointSliceAfterDelete_ErrorIgnored(outcome) == "removeLabel"

\* Mutant: unexportEndpointSlice returns the error of a Delete that found nothing.
unexportEndpointSliceAfterDelete_NotFoundIsError(outcome) ==
    IF outcome = "ok" THEN "removeLabel" ELSE "returnErr"

\* controller.go:298-301: unexportEndpointSlice after its hub Delete.
unexportEndpointSliceAfterDelete(outcome) ==
    IF outcome \in {"ok", "notFound"} THEN "removeLabel" ELSE "returnErr"

\* controller.go:124-145: the EndpointSliceExport Reconcile builds.
endpointSliceExportObject(name, sid, resourceVersion, uid) ==
    [namespace |-> hubNS, name |-> name, addressType |-> "IPv4",
     reference |-> [clusterID |-> memberClusterID, namespace |-> sid.namespace,
                    name |-> sid.name, resourceVersion |-> resourceVersion,
                    uid |-> uid]]

SliceOp(store, op, name, outcome) ==
    [store |-> store, op |-> op, name |-> name, outcome |-> outcome]

NoRedo == [st |-> "no", f |-> 0]

\* The pass is running and nothing outside it has changed a store since it began.
CleanPass == [st |-> "clean", f |-> 0]

PendingRedo == [st |-> "pending", f |-> 0]

\* The EndpointSlice controller at rest.
SliceIdle ==
    /\ spc = "idle"
    /\ sreq \in SliceIds
    /\ endpointSlice = NoObj
    /\ svcExportGet = NotFetched
    /\ fleetUniqueName = ""
    /\ createOrUpdateGet = "nil"
    /\ serr = FALSE
    /\ decided = None
    /\ prevDecided = None
    /\ copyCurrent = FALSE
    /\ sameObject = FALSE
    /\ queue = {}
    /\ sliceOps = <<>>
    /\ redo = NoRedo

\* The ServiceExport controller at rest.
ExportIdle ==
    /\ svcs = [id \in Ids |-> NoObj]
    /\ hub = [k \in HubKeys |-> NoObj]
    /\ hubAcceptsUnnamed = FALSE
    /\ pc = "idle"
    /\ req \in Ids
    /\ svcExport = NoObj
    /\ svc = NoObj
    /\ internalSvcExport = NoObj
    /\ hubGetErr = "nil"
    /\ branch = "none"
    /\ stale = FALSE
    /\ err = FALSE
    /\ hubOps = <<>>
    /\ quiet = TRUE
    /\ hadFinalizer = FALSE
    /\ markerWrite = "none"
    /\ condsBefore = <<>>
    /\ prevRun = NoRun

(***************************************************************************)
(* Initial state                                                           *)
(***************************************************************************)
ExportedSvcExport ==
    [finalizers |-> <<svcExportCleanupFinalizer>>, deletionTimestamp |-> FALSE,
     conditions |-> <<>>]

ExportedProjection(id, p) ==
    [namespace |-> hubNS, name |-> formatInternalSvcExportName(id), ports |-> p]

Init ==
    /\ \E exported \in SUBSET Ids, p \in PortLists :
          /\ svcExports \in [Ids -> withOrWithoutOtherFinalizer(ExportedSvcExport)
                                     \cup withOrWithoutOtherFinalizer(NewSvcExport)]
          /\ \A id \in Ids : id \in exported <=> hasSvcExportCleanupFinalizer(svcExports[id])
          /\ hub = [k \in HubKeys |->
                       IF \E id \in exported : k = internalSvcExportKey(id)
                       THEN ExportedProjection(
                                CHOOSE id \in exported : k = internalSvcExportKey(id), p)
                       ELSE NoObj]
    /\ svcs = [id \in Ids |-> NoObj]
    /\ hubAcceptsUnnamed \in BOOLEAN
    /\ pc = "idle"
    /\ req \in Ids
    /\ svcExport = NoObj
    /\ svc = NoObj
    /\ internalSvcExport = NoObj
    /\ hubGetErr = "nil"
    /\ branch = "none"
    /\ stale = FALSE
    /\ err = FALSE
    /\ faults = MaxFaults
    /\ hubOps = <<>>
    /\ quiet = TRUE
    /\ hadFinalizer = FALSE
    /\ markerWrite = "none"
    /\ condsBefore = <<>>
    /\ prevRun = NoRun
    /\ slices = [sid \in SliceIds |-> NoObj]
    /\ hubSlices = [k \in SliceHubKeys |-> NoObj]
    /\ SliceIdle

(***************************************************************************)
(* Reconcile, one store round trip per step                                *)
(***************************************************************************)
InFlight == pc \notin {"idle", "done"}

\* The pass for id returns; error tells whether it returns an error.
\* hub' and quiet' are set by the step that returns.
Return(id, error) ==
    /\ pc' = "done"
    /\ err' = error
    /\ svcExport' = NoObj
    /\ svc' = NoObj
    /\ internalSvcExport' = NoObj
    /\ hubGetErr' = "nil"
    /\ stale' = FALSE
    /\ UNCHANGED sliceVars
    /\ prevRun' =
          IF error \/ ~quiet' THEN NoRun
          ELSE IF prevRun # NoRun /\ prevRun.id = id
               THEN [id |-> id, n |-> 2, prev |-> prevRun.content,
                     content |-> hub'[internalSvcExportKey(id)]]
               ELSE [id |-> id, n |-> 1, prev |-> NoObj,
                     content |-> hub'[internalSvcExportKey(id)]]

\* The pass goes on to step next.
Goto(next) ==
    /\ pc' = next
    /\ UNCHANGED <<err, prevRun>>
    /\ UNCHANGED sliceVars

\* controller.go:39-57: the Get of the ServiceExport and the cleanup check.
GetSvcExport(id) ==
    /\ pc \in {"idle", "done"}
    /\ req' = id
    /\ hubOps' = <<>>
    /\ quiet' = TRUE
    /\ markerWrite' = "none"
    /\ hadFinalizer' = (svcExports[id] # NoObj /\ hasSvcExportCleanupFinalizer(svcExports[id]))
    /\ condsBefore' = IF svcExports[id] = NoObj THEN <<>> ELSE svcExports[id].conditions
    /\ UNCHANGED <<svcExports, svcs, hub, hubAcceptsUnnamed>>
    /\ \/ /\ faults > 0
          /\ faults' = faults - 1
          /\ branch' = "none"
          /\ Return(id, TRUE)
       \/ /\ svcExports[id] = NoObj
          /\ faults' = faults
          /\ branch' = "none"
          /\ Return(id, FALSE)
       \/ /\ svcExports[id] # NoObj
          /\ faults' = faults
          /\ svcExport' = svcExports[id]
          /\ stale' = FALSE
          /\ branch' = IF isSvcExportCleanupNeeded(svcExports[id]) THEN "cleanup" ELSE "none"
          /\ Goto(IF isSvcExportCleanupNeeded(svcExports[id]) THEN "unexportSvc" ELSE "getSvc")
          /\ UNCHANGED <<svc, internalSvcExport, hubGetErr>>

\* controller.go:59-96: the Get of the Service and the choice of the path.
GetSvc ==
    /\ pc = "getSvc"
    /\ UNCHANGED <<svcExports, svcs, hub, hubAcceptsUnnamed, req, hubOps, quiet,
                   hadFinalizer, condsBefore, markerWrite>>
    /\ \E failed \in (IF faults > 0 THEN BOOLEAN ELSE {FALSE}) :
          LET c == getSvcCase(failed, svcs[req]) IN
             /\ faults' = IF failed THEN faults - 1 ELSE faults
             /\ IF c = "error"
                THEN /\ UNCHANGED branch
                     /\ Return(req, TRUE)
                ELSE /\ svc' = IF failed THEN NoObj ELSE svcs[req]
                     /\ branch' = c
                     /\ Goto(afterSvcCase(c, svcExport))
                     /\ UNCHANGED <<svcExport, internalSvcExport, hubGetErr, stale>>

\* What the hub Delete of unexportSvc answers.
HubDeleteOutcomes ==
    (IF hub[internalSvcExportKey(req)] = NoObj THEN {"notFound"} ELSE {"ok"})
    \cup (IF faults > 0 THEN {"error"} ELSE {})

\* controller.go:204-228: unexportSvc up to its call of removeSvcExportCleanupFinalizer,
\* and what Reconcile does with an early return (controller.go:56, 67-72, 82-87).
UnexportSvc ==
    /\ pc = "unexportSvc"
    /\ UNCHANGED <<svcExports, svcs, hubAcceptsUnnamed, req, quiet, hadFinalizer, condsBefore,
                   markerWrite, branch>>
    /\ \E outcome \in HubDeleteOutcomes :
          /\ hubOps' = Append(hubOps, HubOp("delete", internalSvcExportKey(req), outcome))
          /\ hub' = IF outcome = "ok"
                    THEN [hub EXCEPT ![internalSvcExportKey(req)] = NoObj]
                    ELSE hub
          /\ faults' = IF outcome = "error" THEN faults - 1 ELSE faults
          /\ \/ /\ unexportSvcAfterDelete(outcome) = "removeFinalizer"
                /\ Goto("removeFinalizer")
                /\ UNCHANGED <<svcExport, svc, internalSvcExport, hubGetErr, stale>>
             \/ /\ unexportSvcAfterDelete(outcome) = "returnErr"
                /\ Return(req, TRUE)
             \/ /\ unexportSvcAfterDelete(outcome) = "returnNil"
                /\ branch = "cleanup"
                /\ Return(req, FALSE)
             \/ /\ unexportSvcAfterDelete(outcome) = "returnNil"
                /\ branch # "cleanup"
                /\ Goto("markInvalid")
                /\ UNCHANGED <<svcExport, svc, internalSvcExport, hubGetErr, stale>>

\* controller.go:230-241: removeSvcExportCleanupFinalizer, and what Reconcile does
\* with its result (controller.go:56, 67-72, 82-87).
RemoveSvcExportCleanupFinalizer ==
    /\ pc = "removeFinalizer"
    /\ UNCHANGED <<svcs, hub, hubAcceptsUnnamed, req, hubOps, quiet, hadFinalizer, condsBefore,
                   markerWrite, branch>>
    /\ LET updated == [svcExport EXCEPT !.finalizers = removeFinalizerList(@)] IN
          \/ /\ MemberUpdateOk(updated)
             /\ branch = "cleanup"
             /\ Return(req, FALSE)
          \/ /\ MemberUpdateOk(updated)
             /\ branch # "cleanup"
             /\ svcExport' = updated
             /\ Goto("markInvalid")
             /\ UNCHANGED <<svc, internalSvcExport, hubGetErr, stale>>
          \/ /\ MemberUpdateFails
             /\ Return(req, TRUE)

\* controller.go:243-281: markSvcExportAsInvalidSvcNotFound and
\* markSvcExportAsInvalidSvcIneligible.
MarkSvcExportAsInvalid ==
    /\ pc = "markInvalid"
    /\ UNCHANGED <<svcs, hub, hubAcceptsUnnamed, req, hubOps, quiet, hadFinalizer, condsBefore,
                   markerWrite, branch>>
    /\ LET conds == IF branch = "notFound"
                    THEN markSvcExportAsInvalidSvcNotFound(svcExport.conditions, req)
                    ELSE markSvcExportAsInvalidSvcIneligible(svcExport.conditions, req)
           updated == [svcExport EXCEPT !.conditions = conds]
       IN \/ /\ MemberUpdateOk(updated)
             /\ Return(req, FALSE)
          \/ /\ MemberUpdateFails
             /\ Return(req, TRUE)

\* controller.go:90-96 and 283-290: addCleanupFinalizer.
AddCleanupFinalizer ==
    /\ pc = "addCleanupFinalizer"
    /\ UNCHANGED <<svcs, hub, hubAcceptsUnnamed, req, hubOps, quiet, hadFinalizer, condsBefore, branch>>
    /\ LET updated == [svcExport EXCEPT !.finalizers = addFinalizerList(@)] IN
          \/ /\ MemberUpdateOk(updated)
             /\ markerWrite' = "ok"
             /\ svcExport' = updated
             /\ Goto(afterAddCleanupFinalizer(TRUE))
             /\ UNCHANGED <<svc, internalSvcExport, hubGetErr, stale>>
          \/ /\ MemberUpdateFails \/ MemberUpdateForbidden(updated)
             /\ markerWrite' = "failed"
             /\ IF afterAddCleanupFinalizer(FALSE) = "returnErr"
                THEN Return(req, TRUE)
                ELSE /\ Goto(afterAddCleanupFinalizer(FALSE))
                     /\ UNCHANGED <<svcExport, svc, internalSvcExport, hubGetErr, stale>>

\* controller.go:100-103: the Get of the InternalServiceExport.
HubGet ==
    /\ pc = "hubGet"
    /\ UNCHANGED <<svcExports, svcs, hub, hubAcceptsUnnamed, req, hubOps, quiet,
                   hadFinalizer, condsBefore, markerWrite, branch, svcExport, svc, stale>>
    /\ Goto("hubWrite")
    /\ \/ /\ faults > 0
          /\ faults' = faults - 1
          /\ hubGetErr' = "error"
          /\ internalSvcExport' = ZeroInternalSvcExport
       \/ /\ hub[internalSvcExportKey(req)] = NoObj
          /\ faults' = faults
          /\ hubGetErr' = "notFound"
          /\ internalSvcExport' = ZeroInternalSvcExport
       \/ /\ hub[internalSvcExportKey(req)] # NoObj
          /\ faults' = faults
          /\ hubGetErr' = "nil"
          /\ internalSvcExport' = hub[internalSvcExportKey(req)]

\* controller.go:104-112: the Create or Update of the InternalServiceExport.
HubWrite ==
    /\ pc = "hubWrite"
    /\ UNCHANGED <<svcExports, svcs, hubAcceptsUnnamed, req, quiet, hadFinalizer, condsBefore,
                   markerWrite, branch>>
    /\ LET obj == hubWriteObject(internalSvcExport, svc, svcExport)
           op == hubWriteOp(hubGetErr)
           accepted == IF op = "create" THEN HubCreateAccepted(obj)
                       ELSE HubUpdateAccepted(obj)
       IN \/ /\ accepted
             /\ faults' = faults
             /\ hub' = [hub EXCEPT ![ObjKey(obj)] = obj]
             /\ hubOps' = Append(hubOps, HubOp(op, ObjKey(obj), "ok"))
             /\ Return(req, FALSE)
          \/ /\ ~accepted \/ faults > 0
             /\ faults' = IF accepted THEN faults - 1 ELSE faults
             /\ hub' = hub
             /\ hubOps' = Append(hubOps, HubOp(op, ObjKey(obj), "error"))
             /\ Return(req, TRUE)

(***************************************************************************)
(* The environment                                                         *)
(***************************************************************************)
\* Any external change: the running pass is no longer undisturbed.
External ==
    /\ quiet' = FALSE
    /\ prevRun' = NoRun
    /\ UNCHANGED sliceVars
    /\ UNCHANGED <<hub, hubAcceptsUnnamed, pc, req, svcExport, svc, internalSvcExport,
                   hubGetErr, branch, err, faults, hubOps, hadFinalizer, condsBefore, markerWrite>>

\* A user deletes a ServiceExport: removed at once without finalizers, else
\* marked with a deletion timestamp.
UserDeleteSvcExport(id) ==
    /\ svcExports[id] # NoObj
    /\ ~svcExports[id].deletionTimestamp
    /\ svcExports' = [svcExports EXCEPT ![id] = Stored([@ EXCEPT !.deletionTimestamp = TRUE])]
    /\ stale' = (stale \/ (InFlight /\ id = req))
    /\ UNCHANGED svcs
    /\ External

\* A user creates a ServiceExport.
UserCreateSvcExport(id) ==
    /\ svcExports[id] = NoObj
    /\ \E v \in withOrWithoutOtherFinalizer(NewSvcExport) :
          svcExports' = [svcExports EXCEPT ![id] = v]
    /\ stale' = (stale \/ (InFlight /\ id = req))
    /\ UNCHANGED svcs
    /\ External

\* The other controller is done with a ServiceExport that is being deleted
\* and removes its finalizer.
OtherFinalizerRemoved(id) ==
    /\ svcExports[id] # NoObj
    /\ svcExports[id].deletionTimestamp
    /\ \E i \in 1..Len(svcExports[id].finalizers) :
          svcExports[id].finalizers[i] = otherFinalizer
    /\ svcExports' = [svcExports EXCEPT ![id] =
          Stored([@ EXCEPT !.finalizers = SelectSeq(@, LAMBDA f : f # otherFinalizer)])]
    /\ stale' = (stale \/ (InFlight /\ id = req))
    /\ UNCHANGED svcs
    /\ External

\* Another controller reports on a ServiceExport with a condition of its own
\* type.
OtherConditionWritten(id) ==
    /\ svcExports[id] # NoObj
    /\ \A i \in 1..Len(svcExports[id].conditions) :
          svcExports[id].conditions[i].type # otherCondition.type
    /\ svcExports' = [svcExports EXCEPT ![id].conditions = Append(@, otherCondition)]
    /\ stale' = (stale \/ (InFlight /\ id = req))
    /\ UNCHANGED svcs
    /\ External

\* A Service is created, changed, marked deleted or removed.
SvcChange(id) ==
    /\ \E v \in SvcValues \cup {NoObj} :
          /\ v # svcs[id]
          /\ svcs' = [svcs EXCEPT ![id] = v]
    /\ UNCHANGED <<svcExports, stale>>
    /\ External

\* The process crashes in the middle of a pass and restarts.
Crash ==
    /\ InFlight
    /\ faults > 0
    /\ faults' = faults - 1
    /\ pc' = "idle"
    /\ err' = FALSE
    /\ svcExport' = NoObj
    /\ svc' = NoObj
    /\ internalSvcExport' = NoObj
    /\ hubGetErr' = "nil"
    /\ stale' = FALSE
    /\ branch' = "none"
    /\ hubOps' = <<>>
    /\ hadFinalizer' = FALSE
    /\ markerWrite' = "none"
    /\ condsBefore' = <<>>
    /\ prevRun' = NoRun
    /\ UNCHANGED sliceVars
    /\ UNCHANGED <<svcExports, svcs, hub, hubAcceptsUnnamed, req, quiet>>

Reconcile ==
    \/ \E id \in Ids : GetSvcExport(id)
    \/ GetSvc
    \/ UnexportSvc
    \/ RemoveSvcExportCleanupFinalizer
    \/ MarkSvcExportAsInvalid
    \/ AddCleanupFinalizer
    \/ HubGet
    \/ HubWrite

Next ==
    \/ Reconcile
    \/ \E id \in Ids : UserDeleteSvcExport(id)
    \/ \E id \in Ids : UserCreateSvcExport(id)
    \/ \E id \in Ids : OtherFinalizerRemoved(id)
    \/ \E id \in Ids : OtherConditionWritten(id)
    \/ \E id \in Ids : SvcChange(id)
    \/ Crash

Spec == Init /\ [][Next]_vars

\* The scheduling of the work queue: a pass that can take a step takes it,
\* and a request for an identity is served again and again.
Fairness ==
    /\ WF_vars(Reconcile)
    /\ \A id \in Ids : SF_vars(GetSvcExport(id))

LiveSpec == Init /\ [][Next]_vars /\ Fairness

(***************************************************************************)
(* The EndpointSlice controller: stores and initial state                  *)
(***************************************************************************)
\* The recorded resource versions once the store has renewed the resource
\* version of the EndpointSlice sid: what equalled the store's now equals the
\* copy's, if the copy held the store's, and nothing else.
RebasedOnWrite(sid) ==
    [k \in SliceHubKeys |->
        IF /\ hubSlices[k] # NoObj
           /\ hubSlices[k].reference.name = sid.name
           /\ hubSlices[k].reference.namespace = sid.namespace
           /\ hubSlices[k].reference.resourceVersion = "store"
        THEN [hubSlices[k] EXCEPT !.reference.resourceVersion =
                 IF endpointSlice # NoObj /\ sreq = sid /\ copyCurrent
                 THEN "copy" ELSE "other"]
        ELSE hubSlices[k]]

\* The recorded resource versions once the pass's copy is dropped.
RebasedOnDrop ==
    [k \in SliceHubKeys |->
        IF hubSlices[k] # NoObj /\ hubSlices[k].reference.resourceVersion = "copy"
        THEN [hubSlices[k] EXCEPT !.reference.resourceVersion = "other"]
        ELSE hubSlices[k]]

\* The resource version of the pass's copy.
copyResourceVersion == IF copyCurrent THEN "store" ELSE "copy"

\* The recorded UIDs of hs once the UID recorded as from is known as to.
RebasedUID(hs, from, to) ==
    [k \in SliceHubKeys |->
        IF hs[k] # NoObj /\ hs[k].reference.uid = from
        THEN [hs[k] EXCEPT !.reference.uid = to]
        ELSE hs[k]]

\* The UID of the pass's copy.
copyUID == IF sameObject THEN "store" ELSE "copy"

\* memberClient.Update of a copy of the pass's EndpointSlice succeeds: the
\* copy holds the resource version the store holds, and the store renews it.
SliceUpdateOk(obj) ==
    /\ slices[sreq] # NoObj
    /\ copyCurrent
    /\ slices' = [slices EXCEPT ![sreq] = obj]
    /\ hubSlices' = RebasedOnWrite(sreq)
    /\ copyCurrent' = FALSE
    /\ faults' = faults

\* memberClient.Update is refused: the object is gone or has changed.
SliceUpdateConflict(obj) ==
    /\ slices[sreq] = NoObj \/ ~copyCurrent
    /\ UNCHANGED <<slices, hubSlices, copyCurrent, faults>>

\* memberClient.Update fails with a store error.
SliceUpdateError(obj) ==
    /\ slices[sreq] # NoObj
    /\ copyCurrent
    /\ faults > 0
    /\ faults' = faults - 1
    /\ UNCHANGED <<slices, hubSlices, copyCurrent>>

\* At start an EndpointSlice that can be exported may carry a unique name,
\* with or without the EndpointSliceExport of that name on the hub
\* (controller.go:294-297).
SliceInit ==
    /\ ExportIdle
    /\ SliceIdle
    /\ faults = MaxFaults
    /\ svcExports \in [Ids -> GoverningValues \cup {NoObj}]
    /\ \E v \in SliceValues, exported \in BOOLEAN :
          /\ ~v.deletionTimestamp
          /\ HasLabel(v.labels, endpointSliceUniqueNameLabel) =>
                ~isEndpointSlicePermanentlyUnexportable(v)
          /\ slices = [sid \in SliceIds |-> v]
          /\ hubSlices = [k \in SliceHubKeys |->
                IF /\ exported
                   /\ HasLabel(v.labels, endpointSliceUniqueNameLabel)
                   /\ k = endpointSliceExportKey(v.labels[endpointSliceUniqueNameLabel])
                THEN endpointSliceExportObject(
                         v.labels[endpointSliceUniqueNameLabel],
                         CHOOSE sid \in SliceIds : TRUE,
                         "other", "store")
                ELSE NoObj]

(***************************************************************************)
(* The EndpointSlice Reconcile, one store round trip per step              *)
(***************************************************************************)
SliceInFlight == spc \notin {"idle", "done"}

\* The pass returns; pending tells whether it leaves an unexport half done.
SliceReturn(error, pending) ==
    /\ spc' = "done"
    /\ serr' = error
    /\ queue' = IF error THEN queue \cup {sreq} ELSE queue
    /\ redo' = IF pending /\ redo.st \in {"clean", "running"} THEN PendingRedo
               ELSE IF ~pending /\ redo.st = "running" THEN [redo EXCEPT !.st = "ran"]
               ELSE NoRedo
    /\ UNCHANGED <<svcExports, exportLocals, prevDecided, sreq, sameObject>>

\* The pass goes on to step next.
SliceGoto(next) ==
    /\ spc' = next
    /\ UNCHANGED <<serr, redo, svcExports, exportLocals, prevDecided, sreq,
                   sameObject, queue>>

\* controller.go:70-82: the Get of the EndpointSlice.  A pass starts for a
\* request of the queue, or with the periodic resync of the watch.
GetEndpointSlice(sid) ==
    /\ spc \in {"idle", "done"}
    /\ sreq' = sid
    /\ sliceOps' = <<>>
    /\ decided' = None
    /\ svcExportGet' = NotFetched
    /\ fleetUniqueName' = ""
    /\ createOrUpdateGet' = "nil"
    /\ hubSlices' = RebasedUID(RebasedOnDrop, "copy", "other")
    /\ UNCHANGED <<svcExports, exportLocals, prevDecided, slices>>
    /\ \/ /\ faults > 0
          /\ faults' = faults - 1
          /\ endpointSlice' = NoObj
          /\ copyCurrent' = FALSE
          /\ sameObject' = FALSE
          /\ spc' = "done"
          /\ serr' = (afterGetEndpointSlice("error") = "returnErr")
          /\ queue' = IF serr' THEN queue \cup {sid} ELSE queue \ {sid}
          /\ redo' = NoRedo
       \/ /\ slices[sid] = NoObj
          /\ faults' = faults
          /\ endpointSlice' = NoObj
          /\ copyCurrent' = FALSE
          /\ sameObject' = FALSE
          /\ spc' = "done"
          /\ serr' = (afterGetEndpointSlice("notFound") = "returnErr")
          /\ queue' = IF serr' THEN queue \cup {sid} ELSE queue \ {sid}
          /\ redo' = NoRedo
       \/ /\ slices[sid] # NoObj
          /\ faults' = faults
          /\ endpointSlice' = slices[sid]
          /\ copyCurrent' = TRUE
          /\ sameObject' = TRUE
          /\ queue' = queue \ {sid}
          /\ spc' = afterGetEndpointSlice("ok")
          /\ serr' = serr
          /\ redo' = IF redo.st = "pending"
                     THEN [st |-> "running", f |-> faults] ELSE CleanPass

\* The ServiceExport that governs the pass's EndpointSlice.
governingSvcExport ==
    LET key == [namespace |-> sreq.namespace, name |-> endpointSlice.labels[LabelServiceName]]
    IN IF key \in Ids THEN svcExports[key] ELSE NoObj

\* What the Get of the ServiceExport may answer.
SvcExportGetOutcomes ==
    IF needsSvcExport(endpointSlice)
    THEN {governingSvcExport} \cup (IF faults > 0 THEN {GetError} ELSE {})
    ELSE {NotFetched}

\* controller.go:84-119: shouldSkipOrUnexportEndpointSlice with its Get of the
\* ServiceExport, Reconcile's switch on the op, and the read of the label.
ShouldSkipOrUnexportEndpointSlice ==
    /\ spc = "decide"
    /\ UNCHANGED <<slices, hubSlices, endpointSlice, copyCurrent, createOrUpdateGet,
                   sliceOps>>
    /\ \E got \in SvcExportGetOutcomes :
          LET d == shouldSkipOrUnexportEndpointSlice(endpointSlice, got)
              next == afterDecision(d)
          IN /\ svcExportGet' = got
             /\ decided' = d
             /\ faults' = IF got = GetError THEN faults - 1 ELSE faults
             /\ \/ /\ next = "returnNil"
                   /\ fleetUniqueName' = ""
                   /\ SliceReturn(FALSE, FALSE)
                \/ /\ next = "returnErr"
                   /\ fleetUniqueName' = ""
                   /\ SliceReturn(TRUE, FALSE)
                \/ /\ next = "unexportDelete"
                   /\ fleetUniqueName' = ""
                   /\ SliceGoto("unexportDelete")
                \/ /\ next = "continue"
                   /\ fleetUniqueName' =
                         IF HasLabel(endpointSlice.labels, endpointSliceUniqueNameLabel)
                         THEN endpointSlice.labels[endpointSliceUniqueNameLabel] ELSE ""
                   /\ SliceGoto(afterContinue(endpointSlice))

\* What the hub Delete of unexportEndpointSlice answers.
SliceDeleteOutcomes(key) ==
    (IF hubSlices[key] = NoObj THEN {"notFound"} ELSE {"ok"})
    \cup (IF faults > 0 THEN {"error"} ELSE {})

\* controller.go:284-301: unexportEndpointSlice up to the removal of the label.
UnexportEndpointSliceDelete ==
    /\ spc = "unexportDelete"
    /\ UNCHANGED <<slices, endpointSlice, copyCurrent, svcExportGet, fleetUniqueName,
                   createOrUpdateGet, decided>>
    /\ LET name == LabelValue(endpointSlice.labels, endpointSliceUniqueNameLabel)
           key == endpointSliceExportKey(name)
       IN \E outcome \in SliceDeleteOutcomes(key) :
             /\ sliceOps' = Append(sliceOps, SliceOp("hub", "delete", name, outcome))
             /\ hubSlices' = IF outcome = "ok" THEN [hubSlices EXCEPT ![key] = NoObj]
                             ELSE hubSlices
             /\ faults' = IF outcome = "error" THEN faults - 1 ELSE faults
             /\ IF unexportEndpointSliceAfterDelete(outcome) = "removeLabel"
                THEN SliceGoto("removeLabel")
                ELSE SliceReturn(TRUE, FALSE)

\* controller.go:303-306: the removal of the unique name label.
UnexportEndpointSliceRemoveLabel ==
    /\ spc = "removeLabel"
    /\ UNCHANGED <<endpointSlice, svcExportGet, fleetUniqueName, createOrUpdateGet,
                   decided>>
    /\ LET endpointSliceCopy ==
               [endpointSlice EXCEPT
                   !.labels = WithoutLabel(@, endpointSliceUniqueNameLabel)]
       IN \/ /\ SliceUpdateOk(endpointSliceCopy)
             /\ sliceOps' = Append(sliceOps, SliceOp("member", "removeLabel", sreq.name, "ok"))
             /\ SliceReturn(FALSE, FALSE)
          \/ /\ SliceUpdateConflict(endpointSliceCopy)
             /\ sliceOps' = Append(sliceOps, SliceOp("member", "removeLabel", sreq.name, "conflict"))
             /\ SliceReturn(TRUE, FALSE)
          \/ /\ SliceUpdateError(endpointSliceCopy)
             /\ sliceOps' = Append(sliceOps, SliceOp("member", "removeLabel", sreq.name, "error"))
             /\ SliceReturn(TRUE, TRUE)

\* controller.go:309-320 and 114-118: assignUniqueNameAsLabel.
AssignUniqueNameAsLabel ==
    /\ spc = "assignLabel"
    /\ UNCHANGED <<endpointSlice, svcExportGet, createOrUpdateGet, decided>>
    /\ LET name == formatFleetUniqueName(memberClusterID, sreq)
           updatedEndpointSlice ==
               [endpointSlice EXCEPT
                   !.labels = WithLabel(@, endpointSliceUniqueNameLabel, name)]
       IN \/ /\ SliceUpdateOk(updatedEndpointSlice)
             /\ sliceOps' = Append(sliceOps, SliceOp("member", "assignLabel", sreq.name, "ok"))
             /\ fleetUniqueName' = name
             /\ SliceGoto("createOrUpdateGet")
          \/ /\ SliceUpdateConflict(updatedEndpointSlice)
             /\ sliceOps' = Append(sliceOps, SliceOp("member", "assignLabel", sreq.name, "conflict"))
             /\ fleetUniqueName' = name
             /\ SliceReturn(TRUE, FALSE)
          \/ /\ SliceUpdateError(updatedEndpointSlice)
             /\ sliceOps' = Append(sliceOps, SliceOp("member", "assignLabel", sreq.name, "error"))
             /\ fleetUniqueName' = name
             /\ SliceReturn(TRUE, FALSE)

\* controller.go:130: the Get inside controllerutil.CreateOrUpdate.
CreateOrUpdateGet ==
    /\ spc = "createOrUpdateGet"
    /\ UNCHANGED <<slices, hubSlices, endpointSlice, copyCurrent, svcExportGet,
                   fleetUniqueName, decided, sliceOps>>
    /\ \/ /\ faults > 0
          /\ faults' = faults - 1
          /\ createOrUpdateGet' = "error"
          /\ SliceReturn(TRUE, FALSE)
       \/ /\ faults' = faults
          /\ createOrUpdateGet' =
                IF hubSlices[endpointSliceExportKey(fleetUniqueName)] = NoObj
                THEN "notFound" ELSE "found"
          /\ SliceGoto("createOrUpdateWrite")

\* controller.go:130-157: the Create or Update inside controllerutil.CreateOrUpdate;
\* an object that already is as the pass builds it is not written.
CreateOrUpdateWrite ==
    /\ spc = "createOrUpdateWrite"
    /\ UNCHANGED <<slices, endpointSlice, copyCurrent, svcExportGet, fleetUniqueName,
                   createOrUpdateGet, decided>>
    /\ LET key == endpointSliceExportKey(fleetUniqueName)
           obj == endpointSliceExportObject(fleetUniqueName, sreq, copyResourceVersion,
                                            copyUID)
           op == IF createOrUpdateGet = "notFound" THEN "create" ELSE "update"
       IN \/ /\ op = "update"
             /\ hubSlices[key] = obj
             /\ faults' = faults
             /\ UNCHANGED <<hubSlices, sliceOps>>
             /\ SliceReturn(FALSE, FALSE)
          \/ /\ op = "create" \/ hubSlices[key] # obj
             /\ faults' = faults
             /\ hubSlices' = [hubSlices EXCEPT ![key] = obj]
             /\ sliceOps' = Append(sliceOps, SliceOp("hub", op, fleetUniqueName, "ok"))
             /\ SliceReturn(FALSE, FALSE)
          \/ /\ op = "create" \/ hubSlices[key] # obj
             /\ faults > 0
             /\ faults' = faults - 1
             /\ hubSlices' = hubSlices
             /\ sliceOps' = Append(sliceOps, SliceOp("hub", op, fleetUniqueName, "error"))
             /\ SliceReturn(TRUE, FALSE)

(***************************************************************************)
(* The environment of the EndpointSlice controller                         *)
(***************************************************************************)
\* An external change: a repeated unexport no longer finds what the
\* interrupted one left.
SliceExternal ==
    /\ redo' = NoRedo
    /\ UNCHANGED <<exportLocals, spc, sreq, endpointSlice, svcExportGet,
                   fleetUniqueName, createOrUpdateGet, serr, decided, prevDecided,
                   sliceOps>>

\* An EndpointSlice is created, is taken into use by a Service or released,
\* is marked deleted, or is removed, and the EndpointSlice watch
\* (controller.go:190) enqueues it.  The unique name label is the controller's.
SliceChange(sid) ==
    /\ \/ /\ slices[sid] = NoObj
          /\ \E v \in SliceValues :
                /\ ~HasLabel(v.labels, endpointSliceUniqueNameLabel)
                /\ ~v.deletionTimestamp
                /\ slices' = [slices EXCEPT ![sid] = v]
          /\ hubSlices' = RebasedOnWrite(sid)
          /\ sameObject' = sameObject
       \/ /\ slices[sid] # NoObj
          /\ slices' = [slices EXCEPT ![sid] = NoObj]
          /\ hubSlices' = RebasedUID(RebasedOnWrite(sid), "store",
                               IF endpointSlice # NoObj /\ sreq = sid /\ sameObject
                               THEN "copy" ELSE "other")
          /\ sameObject' = (sameObject /\ sid # sreq)
       \/ /\ slices[sid] # NoObj
          /\ hubSlices' = RebasedOnWrite(sid)
          /\ sameObject' = sameObject
          /\ \E v \in SliceValues :
                /\ v # slices[sid]
                /\ LabelValue(v.labels, endpointSliceUniqueNameLabel) =
                      LabelValue(slices[sid].labels, endpointSliceUniqueNameLabel)
                /\ HasLabel(v.labels, endpointSliceUniqueNameLabel) =
                      HasLabel(slices[sid].labels, endpointSliceUniqueNameLabel)
                /\ v.addressType = slices[sid].addressType
                /\ slices[sid].deletionTimestamp => v.deletionTimestamp
                /\ slices' = [slices EXCEPT ![sid] = v]
    /\ copyCurrent' = (copyCurrent /\ sid # sreq)
    /\ queue' = queue \cup {sid}
    /\ UNCHANGED <<svcExports, faults>>
    /\ SliceExternal

\* controller.go:165-172: the EndpointSlices the List of the map function
\* selects for the ServiceExport id, by namespace and Service name label.
endpointSliceList(id) ==
    {sid \in SliceIds :
        /\ slices[sid] # NoObj
        /\ sid.namespace = id.namespace
        /\ HasLabel(slices[sid].labels, LabelServiceName)
        /\ slices[sid].labels[LabelServiceName] = id.name}

\* controller.go:172-185: the requests the map function returns.
reqs(listFailed, items) == IF listFailed THEN {} ELSE items

\* The ServiceExport is created, removed, or given other conditions, and the
\* map function of the ServiceExport watch (controller.go:163-186) enqueues
\* the EndpointSlices in use by its Service.
IntentChange(id) ==
    /\ \E v \in GoverningValues \cup {NoObj} :
          /\ v # svcExports[id]
          /\ svcExports' = [svcExports EXCEPT ![id] = v]
    /\ \E listFailed \in (IF faults > 0 THEN BOOLEAN ELSE {FALSE}) :
          /\ faults' = IF listFailed THEN faults - 1 ELSE faults
          /\ queue' = queue \cup reqs(listFailed, endpointSliceList(id))
    /\ UNCHANGED <<slices, hubSlices, copyCurrent, sameObject>>
    /\ SliceExternal

\* The process crashes in the middle of a pass and restarts.
SliceCrash ==
    /\ SliceInFlight
    /\ faults > 0
    /\ faults' = faults - 1
    /\ spc' = "idle"
    /\ serr' = FALSE
    /\ endpointSlice' = NoObj
    /\ svcExportGet' = NotFetched
    /\ fleetUniqueName' = ""
    /\ createOrUpdateGet' = "nil"
    /\ decided' = None
    /\ sliceOps' = <<>>
    /\ redo' = IF spc = "removeLabel" /\ redo.st \in {"clean", "running"}
               THEN PendingRedo ELSE NoRedo
    /\ hubSlices' = RebasedUID(RebasedOnDrop, "copy", "other")
    /\ copyCurrent' = FALSE
    /\ sameObject' = FALSE
    /\ queue' = {sid \in SliceIds : slices[sid] # NoObj}
    /\ UNCHANGED <<svcExports, exportLocals, slices, sreq, prevDecided>>

SliceReconcile ==
    \/ \E sid \in SliceIds : GetEndpointSlice(sid)
    \/ ShouldSkipOrUnexportEndpointSlice
    \/ UnexportEndpointSliceDelete
    \/ UnexportEndpointSliceRemoveLabel
    \/ AssignUniqueNameAsLabel
    \/ CreateOrUpdateGet
    \/ CreateOrUpdateWrite

SliceNext ==
    \/ SliceReconcile
    \/ \E sid \in SliceIds : SliceChange(sid)
    \/ \E id \in Ids : IntentChange(id)
    \/ SliceCrash

SliceSpec == SliceInit /\ [][SliceNext]_vars

(***************************************************************************)
(* shouldSkipOrUnexportEndpointSlice on its own: the inputs are drawn, the *)
(* function is applied, and the decision before is remembered              *)
(***************************************************************************)
\* What the Get of the ServiceExport can answer.
SvcExportGetValues == IntentValues \cup {NoObj, GetError}

\* The five inputs the decision reads (controller.go:214, 220, 223, 254-258,
\* 272): service name label, unique name label, ServiceExport found and valid
\* with no conflict, deletion timestamp, permanently unexportable.
decisionInputs(es, got) ==
    <<HasLabel(es.labels, LabelServiceName),
      HasLabel(es.labels, endpointSliceUniqueNameLabel),
      IF got \in {NoObj, GetError, NotFetched} THEN FALSE ELSE isValidWithNoConflict(got),
      es.deletionTimestamp,
      isEndpointSlicePermanentlyUnexportable(es)>>

DecisionInit ==
    /\ ExportIdle
    /\ faults = MaxFaults
    /\ svcExports = [id \in Ids |-> NoObj]
    /\ slices = [sid \in SliceIds |-> NoObj]
    /\ hubSlices = [k \in SliceHubKeys |-> NoObj]
    /\ spc = "decide"
    /\ sreq \in SliceIds
    /\ endpointSlice \in SliceValues
    /\ svcExportGet \in SvcExportGetValues
    /\ fleetUniqueName = ""
    /\ createOrUpdateGet = "nil"
    /\ serr = FALSE
    /\ decided = None
    /\ prevDecided = None
    /\ copyCurrent = TRUE
    /\ sameObject = TRUE
    /\ queue = {}
    /\ sliceOps = <<>>
    /\ redo = NoRedo

\* The function is applied to the inputs drawn.
ApplyDecision ==
    /\ decided = None
    /\ decided' = shouldSkipOrUnexportEndpointSlice(endpointSlice, svcExportGet)
    /\ UNCHANGED <<svcExports, faults, exportLocals, slices, hubSlices, spc, sreq,
                   endpointSlice, svcExportGet, fleetUniqueName, createOrUpdateGet,
                   serr, prevDecided, copyCurrent, sameObject, queue, sliceOps, redo>>

\* Other inputs are drawn.
DrawDecisionInputs ==
    /\ decided # None
    /\ prevDecided' = [inputs |-> decisionInputs(endpointSlice, svcExportGet),
                       op |-> decided.op, err |-> decided.err]
    /\ decided' = None
    /\ endpointSlice' \in SliceValues
    /\ svcExportGet' \in SvcExportGetValues
    /\ UNCHANGED <<svcExports, faults, exportLocals, slices, hubSlices, spc, sreq,
                   fleetUniqueName, createOrUpdateGet, serr, copyCurrent, sameObject,
                   queue, sliceOps, redo>>

DecisionNext == ApplyDecision \/ DrawDecisionInputs

DecisionSpec == DecisionInit /\ [][DecisionNext]_vars

(***************************************************************************)
(* The two controllers of the process, followed one at a time: the one     *)
(* takes steps while the other is as it was built                          *)
(***************************************************************************)
\* The EndpointSlice controller is as it was built and has no object.
SliceNotStarted ==
    /\ SliceIdle
    /\ slices = [sid \in SliceIds |-> NoObj]
    /\ hubSlices = [k \in SliceHubKeys |-> NoObj]

\* The ServiceExport controller is as it was built.
ExportNotStarted == ExportIdle

BothInit == Init \/ SliceInit

BothNext ==
    \/ SliceNotStarted /\ Next
    \/ ExportNotStarted /\ SliceNext

BothSpec == BothInit /\ [][BothNext]_vars

(***************************************************************************)
(* State functions the properties use                                      *)
(***************************************************************************)
\* The Hub Projection of the Export Intent id.
Projection(id) == hub[internalSvcExportKey(id)]

\* The Export Intent id is in the member store and carries the cleanup marker.
HasMarker(id) == svcExports[id] # NoObj /\ hasSvcExportCleanupFinalizer(svcExports[id])

\* The Export Intent id carries a Valid condition of status False with a reason of rs.
ValidFalse(id, rs) ==
    /\ svcExports[id] # NoObj
    /\ \E i \in 1..Len(svcExports[id].conditions) :
          LET c == svcExports[id].conditions[i] IN
             c.type = ServiceExportValid /\ c.status = "False" /\ c.reason \in rs

\* The current pass issued the hub call op with the given outcomes.
Issued(ops, outcomes) ==
    \E i \in 1..Len(hubOps) : hubOps[i].op \in ops /\ hubOps[i].outcome \in outcomes

AnyOutcome == {"ok", "notFound", "error"}

\* The last pass has returned and nothing outside it changed a store meanwhile.
QuietDone == pc = "done" /\ quiet

(***************************************************************************)
(* Properties                                                              *)
(***************************************************************************)
\* C1: no orphaned export projection.  In every reachable state, if the Hub
\* Projection of an Export Intent exists on the hub, the intent is in the
\* member store and carries the cleanup marker.
C1_NoOrphanedProjection ==
    \A id \in Ids : Projection(id) # NoObj => HasMarker(id)

\* An unexport of an intent scheduled for deletion failed at the hub delete:
\* the projection is still there, and so is the marked intent.
C1_Witness ==
    /\ pc = "done"
    /\ err
    /\ branch = "cleanup"
    /\ Issued({"delete"}, {"error"})
    /\ Projection(req) # NoObj
    /\ svcExports[req] # NoObj
    /\ svcExports[req].deletionTimestamp

\* C2: in a pass for an eligible Source Object whose intent lacks the marker,
\* the marker is persisted before any hub create or update is issued, and a
\* failure to persist it ends the pass with the error and no hub write.
C2_MarkerBeforeHubWrite ==
    (branch = "export" /\ ~hadFinalizer) =>
        /\ (pc \in {"hubGet", "hubWrite"} \/ Issued({"create", "update"}, AnyOutcome))
              => (markerWrite = "ok" /\ HasMarker(req))
        /\ markerWrite = "failed" => (pc = "done" /\ err /\ hubOps = <<>>)

\* A pass added the marker and then issued its hub write.
C2_Witness ==
    /\ pc = "done"
    /\ branch = "export"
    /\ ~hadFinalizer
    /\ markerWrite = "ok"
    /\ Issued({"create", "update"}, AnyOutcome)

\* C3: when an intent with the marker is scheduled for deletion and the hub
\* delete reports the projection absent, the pass removes the marker,
\* persists the intent and returns no error.
C3_AbsentProjectionTolerated ==
    (QuietDone /\ branch = "cleanup" /\ Issued({"delete"}, {"notFound"}))
        => (~err /\ ~HasMarker(req))

\* C4: an exported intent (marker and projection present) that is scheduled
\* for deletion leads to the projection deleted and the marker removed, under
\* fair scheduling of passes and finitely many store errors and crashes.
C4_DeletedIntentIsUnexported ==
    \A id \in Ids :
        (HasMarker(id) /\ svcExports[id].deletionTimestamp /\ Projection(id) # NoObj)
            ~> (Projection(id) = NoObj /\ ~HasMarker(id))

\* C5: the marker is removed only after the hub delete: no step removes the
\* marker of an intent whose projection exists, and a hub delete that fails
\* with an error other than absence ends the pass with that error and the
\* marker retained.
C5_MarkerRemovedAfterHubDelete ==
    /\ [][\A id \in Ids : (HasMarker(id) /\ ~HasMarker(id)') => Projection(id) = NoObj]_vars
    /\ [](Issued({"delete"}, {"error"}) => (pc = "done" /\ err /\ HasMarker(req)))

\* An unexport deleted the projection and then removed the marker.
C5_Witness ==
    /\ pc = "done"
    /\ ~err
    /\ hadFinalizer
    /\ Issued({"delete"}, {"ok"})
    /\ Projection(req) = NoObj
    /\ ~HasMarker(req)

\* The pass that has returned was for an intent that is in the store and was
\* not scheduled for deletion, with the Source Object in case c.
PassFor(c) ==
    /\ QuietDone
    /\ svcExports[req] # NoObj
    /\ ~svcExports[req].deletionTimestamp
    /\ svcCase(svcs[req]) = c

\* Scenario A with the reason rs: a pass for an intent without the marker whose
\* Source Object is absent or marked deleted issues no hub call, leaves no
\* projection, and on success leaves Valid=False with a reason of rs.
ScenarioA(rs) ==
    (PassFor("notFound") /\ ~hadFinalizer) =>
        /\ hubOps = <<>>
        /\ Projection(req) = NoObj
        /\ ~err => ValidFalse(req, rs)

\* C6 as claimed: Scenario A, the reason being "SourceNotFound".
C6_ScenarioA_SourceNotFound == ScenarioA({"SourceNotFound"})

\* C6 as amended: Scenario A, the reason being "ServiceNotFound".
C6_ScenarioA_ServiceNotFound == ScenarioA({"ServiceNotFound"})

\* A pass marked an intent without marker invalid, its Source Object absent.
C6_Witness ==
    /\ PassFor("notFound")
    /\ ~hadFinalizer
    /\ ~err
    /\ branch = "notFound"
    /\ ValidFalse(req, {"ServiceNotFound"})

\* C7: for an intent with the marker that is not scheduled for deletion, when
\* the Source Object is absent, marked deleted or ineligible, a pass that
\* returns no error leaves the projection absent, the marker removed and
\* Valid=False with the reason of the case, also when the projection was
\* already absent.  (The reason is accepted in either spelling; C6 settles it.)
C7_TeardownBeforeInvalid ==
    \A c \in {"notFound", "ineligible"} :
        (PassFor(c) /\ hadFinalizer /\ ~err) =>
            /\ Projection(req) = NoObj
            /\ ~HasMarker(req)
            /\ ValidFalse(req, IF c = "notFound"
                               THEN {"SourceNotFound", "ServiceNotFound"}
                               ELSE {"SourceIneligible", "ServiceIneligible"})

\* C8: Scenario B.  After a pass that returns no error for an intent whose
\* Source Object exists, is not deleted and is eligible, the projection exists
\* in the reserved hub namespace at the deterministic name, its ports are the
\* Source Object's ports, and the intent carries the marker.
C8_ScenarioB ==
    (PassFor("export") /\ ~err) =>
        /\ Projection(req) # NoObj
        /\ Projection(req).namespace = hubNS
        /\ Projection(req).name = formatInternalSvcExportName(req)
        /\ Projection(req).ports = svcs[req].ports
        /\ HasMarker(req)

\* C9: drift self-heals.  When the projection already exists, the next
\* successful pass replaces its spec by the one built from the Source Object.
C9_DriftHeals ==
    (PassFor("export") /\ ~err /\ Issued({"update"}, {"ok"})) =>
        /\ Projection(req) # NoObj
        /\ Projection(req).ports = svcs[req].ports

\* C10: P2.  Of two passes in succession on the same intent, both returning no
\* error and with no external change to either store, the second leaves the
\* projection's content as the first left it.
C10_IdempotentProjection ==
    (prevRun # NoRun /\ prevRun.n = 2) => prevRun.content = prevRun.prev

\* Two passes in succession updated an existing projection.
C10_Witness ==
    /\ pc = "done"
    /\ prevRun # NoRun
    /\ prevRun.n = 2
    /\ prevRun.content # NoObj
    /\ Issued({"update"}, {"ok"})

\* The Export Intent id carries a Valid condition of status True.
ValidTrue(id) ==
    /\ svcExports[id] # NoObj
    /\ \E i \in 1..Len(svcExports[id].conditions) :
          LET c == svcExports[id].conditions[i] IN
             c.type = ServiceExportValid /\ c.status = "True"

AnyReason == {"ServiceNotFound", "ServiceIneligible", "SourceNotFound", "SourceIneligible"}

\* C11 as claimed: P1.  In every reachable state the cleanup marker is present
\* on an Export Intent if and only if its Hub Projection has been created and
\* not since deleted, that is, exists on the hub.
C11_MarkerIffProjection ==
    \A id \in Ids : HasMarker(id) <=> Projection(id) # NoObj

\* C11 as amended: the marker is present whenever the Hub Projection exists,
\* and the marker is put on an intent only by the step of a pass that comes
\* right before its hub write; the marker may be present with no projection.
C11_MarkerCoversProjection ==
    /\ [](\A id \in Ids : ~HasMarker(id) => Projection(id) = NoObj)
    /\ [][\A id \in Ids : (~HasMarker(id) /\ HasMarker(id)') =>
              (pc = "addCleanupFinalizer" /\ req = id /\ pc' = "hubGet")]_vars

\* A pass put the marker on the intent and its hub create then failed: the
\* marker is present and no projection was ever written.
C11_Witness ==
    /\ pc = "done"
    /\ err
    /\ ~hadFinalizer
    /\ markerWrite = "ok"
    /\ Issued({"create"}, {"error"})
    /\ HasMarker(req)
    /\ Projection(req) = NoObj

\* C12: once a pass for an intent has run to completion without error and
\* with no external change, the intent carries Valid=True exactly when its Hub
\* Projection exists and Valid=False exactly when it is absent; after a pass
\* that created or updated the projection no Valid=False is left over.
C12_ConditionMatchesProjection ==
    (QuietDone /\ ~err /\ svcExports[req] # NoObj /\ ~svcExports[req].deletionTimestamp) =>
        /\ ValidTrue(req) <=> Projection(req) # NoObj
        /\ ValidFalse(req, AnyReason) <=> Projection(req) = NoObj
        /\ Issued({"create", "update"}, {"ok"}) => ~ValidFalse(req, AnyReason)

\* The number of conditions of type t among conds.
CountOfType(conds, t) == Cardinality({i \in 1..Len(conds) : conds[i].type = t})

\* C13: an Export Intent holds at most one condition of each type; marking it
\* invalid replaces the Valid condition it has instead of appending another.
C13_OneConditionPerType ==
    \A id \in Ids :
        svcExports[id] # NoObj =>
            \A i \in 1..Len(svcExports[id].conditions) :
                CountOfType(svcExports[id].conditions, svcExports[id].conditions[i].type) = 1

\* An intent marked invalid for an absent Service was marked again, by a later
\* pass, for an ineligible one.
C13_Witness ==
    /\ pc = "done"
    /\ ~err
    /\ branch = "ineligible"
    /\ CountOfType(condsBefore, ServiceExportValid) = 1
    /\ ValidFalse(req, {"ServiceIneligible"})
    /\ ~ValidFalse(req, {"ServiceNotFound"})

\* C14: a store error in the unexport of a deleted intent, in the marker write
\* or in the create-or-update ends the pass with the error and no further
\* store write; a hub read of the projection that fails with an error other
\* than not-found is followed by neither a hub create nor a hub update.
C14_StoreErrorEndsPass ==
    /\ [][(pc = "hubWrite" /\ hubGetErr = "error" /\ pc' = "done") =>
              (hubOps' = hubOps /\ hub' = hub /\ err')]_vars
    /\ [](Issued({"delete", "create", "update"}, {"error"}) => (pc = "done" /\ err))
    /\ [](markerWrite = "failed" => (pc = "done" /\ err /\ hubOps = <<>>))

(***************************************************************************)
(* Properties of the EndpointSlice controller                              *)
(***************************************************************************)
\* A ServiceExport counts as Valid: Valid is True and Conflict is False.
IntentValid(got) ==
    /\ got \notin {NoObj, GetError, NotFetched}
    /\ \E i \in 1..Len(got.conditions) :
          got.conditions[i].type = ServiceExportValid /\ got.conditions[i].status = "True"
    /\ \E i \in 1..Len(got.conditions) :
          got.conditions[i].type = ServiceExportConflict /\ got.conditions[i].status = "False"

\* A ServiceExport counts as Valid: Valid is True and no conflict condition
\* blocks it, a missing conflict condition blocking nothing.
IntentValidUnlessBlocked(got) ==
    /\ got \notin {NoObj, GetError, NotFetched}
    /\ \E i \in 1..Len(got.conditions) :
          got.conditions[i].type = ServiceExportValid /\ got.conditions[i].status = "True"
    /\ \A i \in 1..Len(got.conditions) :
          got.conditions[i].type = ServiceExportConflict => got.conditions[i].status = "False"

AllOps == {shouldSkipEndpointSliceOp, shouldUnexportEndpointSliceOp, noSkipOrUnexportNeededOp}

\* The outcomes the precedence table allows; the table has no row for a
\* deleted object without unique name whose intent is Valid.
TableOutcomes(es, got) ==
    LET svcName == HasLabel(es.labels, LabelServiceName)
        uniqueName == HasLabel(es.labels, endpointSliceUniqueNameLabel)
    IN IF isEndpointSlicePermanentlyUnexportable(es) THEN {shouldSkipEndpointSliceOp}
       ELSE IF ~svcName \/ ~IntentValid(got)
            THEN IF uniqueName THEN {shouldUnexportEndpointSliceOp}
                 ELSE {shouldSkipEndpointSliceOp}
       ELSE IF ~es.deletionTimestamp THEN {noSkipOrUnexportNeededOp}
       ELSE IF uniqueName THEN {shouldUnexportEndpointSliceOp}
       ELSE AllOps

\* A decision has been made and the Get of the ServiceExport did not fail.
Decided == decided # None /\ ~decided.err

ContinueExactlyWhen(valid(_)) ==
    (/\ Decided
     /\ needsSvcExport(endpointSlice)
     /\ ~endpointSlice.deletionTimestamp
     /\ svcExportGet \notin {NoObj, GetError, NotFetched})
        => (decided.op = noSkipOrUnexportNeededOp <=> valid(svcExportGet))

\* C17 as claimed: the intent counts as Valid exactly when its Valid condition
\* is True and no conflict condition blocks it, so that an intent with Valid
\* True and no conflict condition at all gives Continue.
C17_ValidUnlessConflictBlocks == ContinueExactlyWhen(IntentValidUnlessBlocked)

\* C17 as amended: the intent counts as Valid exactly when its Valid condition
\* is True and its conflict condition is present with status False; an intent
\* with Valid True and no conflict condition does not count as Valid.
C17_ValidWithConflictFalse == ContinueExactlyWhen(IntentValid)

\* An intent with Valid True and no conflict condition: the object is skipped.
C17_Witness ==
    /\ Decided
    /\ needsSvcExport(endpointSlice)
    /\ ~endpointSlice.deletionTimestamp
    /\ ~HasLabel(endpointSlice.labels, endpointSliceUniqueNameLabel)
    /\ svcExportGet \notin {NoObj, GetError, NotFetched}
    /\ svcExportGet.conditions = <<condition(ServiceExportValid, "True")>>
    /\ decided.op = shouldSkipEndpointSliceOp

\* The current EndpointSlice pass issued a call of ops with an outcome of outcomes.
SliceIssued(ops, outcomes) ==
    \E i \in 1..Len(sliceOps) : sliceOps[i].op \in ops /\ sliceOps[i].outcome \in outcomes

SliceOutcomes == {"ok", "notFound", "conflict", "error"}

\* The EndpointSlice sid is in the member store and carries a unique name.
HasUniqueName(sid) ==
    slices[sid] # NoObj /\ HasLabel(slices[sid].labels, endpointSliceUniqueNameLabel)

\* C18: a Dependent Object marked for deletion is never exported: no pass
\* that read the object with its deletion timestamp set assigns it a
\* unique-name label or creates or updates a Hub Projection for it.
C18_DeletedNeverExported ==
    (endpointSlice # NoObj /\ endpointSlice.deletionTimestamp) =>
        ~SliceIssued({"assignLabel", "create", "update"}, SliceOutcomes)

\* C19: in an Unexport the unique-name label is removed only after the Hub
\* Projection it names is deleted or found absent: no step removes the label
\* of an object whose projection exists, and a hub delete that fails with an
\* error other than absence ends the pass with the error, the label in place.
C19_LabelRemovedAfterHubDelete ==
    /\ [][\A sid \in SliceIds :
            (HasUniqueName(sid) /\ slices[sid]' # NoObj /\ ~HasUniqueName(sid)') =>
                hubSlices[endpointSliceExportKey(
                    slices[sid].labels[endpointSliceUniqueNameLabel])] = NoObj]_vars
    /\ [](SliceIssued({"delete"}, {"error"}) =>
            (spc = "done" /\ serr /\ ~SliceIssued({"removeLabel"}, SliceOutcomes)))

\* An Unexport deleted the projection and then removed the label.
C19_Witness ==
    /\ spc = "done"
    /\ ~serr
    /\ SliceIssued({"delete"}, {"ok"})
    /\ SliceIssued({"removeLabel"}, {"ok"})
    /\ slices[sreq] # NoObj
    /\ ~HasUniqueName(sreq)
    /\ \A k \in SliceHubKeys : hubSlices[k] = NoObj

\* The pass that has returned repeated an Unexport that a crash or a failed
\* label write cut short after its hub delete, with no external change and no
\* store error since.
RepeatedUnexport == spc = "done" /\ redo.st = "ran" /\ faults = redo.f

\* C20: P5 for dependent objects.  After a crash or a failed label write right
\* after the hub delete of an Unexport, the next pass on the object decides
\* Unexport again, takes the absent projection as success, removes the label
\* and returns no error.
C20_RepeatedUnexportCompletes ==
    RepeatedUnexport =>
        /\ decided # None
        /\ decided.op = shouldUnexportEndpointSliceOp
        /\ SliceIssued({"delete"}, {"notFound"})
        /\ SliceIssued({"removeLabel"}, {"ok"})
        /\ ~serr
        /\ ~HasUniqueName(sreq)

\* A repeated Unexport found the projection absent and removed the label.
C20_Witness ==
    /\ RepeatedUnexport
    /\ SliceIssued({"delete"}, {"notFound"})
    /\ SliceIssued({"removeLabel"}, {"ok"})
    /\ ~serr

\* The pass's copy of the EndpointSlice carries no unique name.
CopyUnnamed ==
    endpointSlice # NoObj /\ ~HasLabel(endpointSlice.labels, endpointSliceUniqueNameLabel)

\* The calls of the current pass that create or update an EndpointSliceExport.
HubWrites == {i \in 1..Len(sliceOps) : sliceOps[i].op \in {"create", "update"}}

\* C21: in a Continue pass for a Dependent Object without a unique-name
\* label, the label is written to the member store, with success, before any
\* hub create or update is issued, and the object in the store carries it
\* when the pass goes on to the hub; when the write of the label fails the
\* pass returns the error and issues no hub write.
C21_LabelPersistedBeforeHubWrite ==
    /\ [](CopyUnnamed =>
            \A i \in HubWrites :
                \E j \in 1..(i - 1) :
                    sliceOps[j].op = "assignLabel" /\ sliceOps[j].outcome = "ok")
    /\ [](SliceIssued({"assignLabel"}, {"conflict", "error"}) =>
            (spc = "done" /\ serr /\ HubWrites = {}))
    /\ [][(spc = "assignLabel" /\ spc' = "createOrUpdateGet") =>
            /\ HasUniqueName(sreq)'
            /\ slices'[sreq].labels[endpointSliceUniqueNameLabel] = fleetUniqueName']_vars

\* A Continue pass assigned the label and then created the projection.
C21_Witness ==
    /\ spc = "done"
    /\ ~serr
    /\ CopyUnnamed
    /\ Len(sliceOps) = 2
    /\ sliceOps[1].op = "assignLabel" /\ sliceOps[1].outcome = "ok"
    /\ sliceOps[2].op = "create" /\ sliceOps[2].outcome = "ok"

\* The EndpointSliceExport at key k was written for the EndpointSlice that is
\* in the member store as sid.
ProjectionOf(k, sid) ==
    /\ slices[sid] # NoObj
    /\ hubSlices[k] # NoObj
    /\ hubSlices[k].reference.namespace = sid.namespace
    /\ hubSlices[k].reference.name = sid.name
    /\ hubSlices[k].reference.uid = "store"

\* The EndpointSliceExport named by the unique name label of sid exists.
ProjectionNamedByLabel(sid) ==
    /\ HasUniqueName(sid)
    /\ hubSlices[endpointSliceExportKey(
           slices[sid].labels[endpointSliceUniqueNameLabel])] # NoObj

\* A pass for sid is past the label and on its way to create the projection.
CreatingProjection(sid) ==
    sreq = sid /\ spc \in {"createOrUpdateGet", "createOrUpdateWrite"}

\* C22 as stated: P3.  For every Dependent Object D the unique-name label is
\* present on D if and only if a Hub Projection named by the label's value
\* exists or a pass that is creating it is in progress.
C22_LabelIffProjection ==
    \A sid \in SliceIds :
        slices[sid] # NoObj =>
            (HasUniqueName(sid) <=>
                (ProjectionNamedByLabel(sid) \/ CreatingProjection(sid)))

\* C22 as amended: for every Dependent Object D, a Hub Projection written for
\* D exists only under the name D's unique-name label holds; the label may
\* be present while no Hub Projection exists.
C22_ProjectionCarriesLabel ==
    \A sid \in SliceIds : \A k \in SliceHubKeys :
        ProjectionOf(k, sid) =>
            /\ HasUniqueName(sid)
            /\ k = endpointSliceExportKey(slices[sid].labels[endpointSliceUniqueNameLabel])

\* A pass created the projection of an object under the name of its label.
C22_Witness ==
    /\ spc = "done"
    /\ ~serr
    /\ SliceIssued({"create"}, {"ok"})
    /\ HasUniqueName(sreq)
    /\ ProjectionOf(endpointSliceExportKey(
                        slices[sreq].labels[endpointSliceUniqueNameLabel]), sreq)

\* The step issues a call to the hub store.
HubCallIssued ==
    /\ Len(sliceOps') = Len(sliceOps) + 1
    /\ sliceOps'[Len(sliceOps')].store = "hub"

\* C23: the unique-name label is stable and is the only source of the
\* projection's name.  No step changes the value of a label that is there,
\* and a pass writes the label only on an object that has none; every hub
\* create, update or delete of a pass names the value of the label the pass
\* read or wrote, and, the object being still the one the pass read, that is
\* the value of the label in the member store and the only hub key touched.
C23_LabelIsTheName ==
    /\ [][\A sid \in SliceIds :
            (HasUniqueName(sid) /\ HasUniqueName(sid)') =>
                slices'[sid].labels[endpointSliceUniqueNameLabel] =
                    slices[sid].labels[endpointSliceUniqueNameLabel]]_vars
    /\ [][(spc = "assignLabel" /\ slices' # slices) => ~HasUniqueName(sreq)]_vars
    /\ [](\A i \in 1..Len(sliceOps) :
            sliceOps[i].store = "hub" =>
                /\ sliceOps[i].name # ""
                /\ sliceOps[i].name =
                      IF CopyUnnamed THEN fleetUniqueName
                      ELSE endpointSlice.labels[endpointSliceUniqueNameLabel])
    /\ [][(HubCallIssued /\ sameObject) =>
            /\ HasUniqueName(sreq)
            /\ sliceOps'[Len(sliceOps')].name =
                  slices[sreq].labels[endpointSliceUniqueNameLabel]
            /\ \A k \in SliceHubKeys :
                  hubSlices'[k] # hubSlices[k] =>
                      k = <<hubNS, slices[sreq].labels[endpointSliceUniqueNameLabel]>>]_vars

\* A pass updated the projection of an object whose label holds a name of an
\* earlier format, under that name.
C23_Witness ==
    /\ spc = "done"
    /\ ~serr
    /\ HasUniqueName(sreq)
    /\ slices[sreq].labels[endpointSliceUniqueNameLabel] = LegacyName
    /\ LegacyName # formatFleetUniqueName(memberClusterID, sreq)
    /\ \E i \in 1..Len(sliceOps) :
          /\ sliceOps[i].op = "update"
          /\ sliceOps[i].outcome = "ok"
          /\ sliceOps[i].name = LegacyName
    /\ hubSlices[<<hubNS, LegacyName>>] # NoObj

\* The ServiceExport in the member store that governs the pass's EndpointSlice.
StoredIntent ==
    IF endpointSlice # NoObj /\ HasLabel(endpointSlice.labels, LabelServiceName)
    THEN LET key == [namespace |-> sreq.namespace,
                     name |-> endpointSlice.labels[LabelServiceName]]
         IN IF key \in Ids THEN svcExports[key] ELSE NoObj
    ELSE NoObj

\* The step ends, with no error, a pass that nothing outside it has disturbed.
ReturnsNoError ==
    /\ spc \notin {"idle", "done"}
    /\ spc' = "done"
    /\ ~serr'
    /\ redo.st \in {"clean", "running"}

\* The object the pass read is not marked for deletion, is in use by a
\* Service and has no unique name.
ScenarioDObject ==
    /\ CopyUnnamed
    /\ ~endpointSlice.deletionTimestamp
    /\ HasLabel(endpointSlice.labels, LabelServiceName)

\* After the step the object carries a unique name and its EndpointSliceExport
\* of that name is in the reserved hub namespace.
ExportedAfter ==
    /\ HasUniqueName(sreq)'
    /\ \E k \in SliceHubKeys :
          /\ k = <<hubNS, slices'[sreq].labels[endpointSliceUniqueNameLabel]>>
          /\ hubSlices'[k] # NoObj
          /\ hubSlices'[k].namespace = hubNS
          /\ hubSlices'[k].name = slices'[sreq].labels[endpointSliceUniqueNameLabel]
          /\ hubSlices'[k].reference.name = sreq.name
          /\ hubSlices'[k].reference.uid = "store"

\* C24 as stated: Scenario D.  For a non-deleted Dependent Object with a
\* service-name label, no unique-name label and a governing Export Intent
\* that is Valid, a pass that returns no error leaves the object carrying a
\* unique-name label and a Hub Projection of that name in the reserved hub
\* namespace.
C24_ScenarioD ==
    [][(ReturnsNoError /\ ScenarioDObject /\ IntentValidUnlessBlocked(StoredIntent))
          => ExportedAfter]_vars

\* C24 as amended: the same, for an object that is not permanently
\* ineligible and an intent whose validity condition is True and whose
\* conflict condition is present and False.
C24_ScenarioD_Exportable ==
    [][(/\ ReturnsNoError
        /\ ScenarioDObject
        /\ ~isEndpointSlicePermanentlyUnexportable(endpointSlice)
        /\ IntentValid(StoredIntent))
          => ExportedAfter]_vars

\* Scenario D has run: the label was assigned and the projection created.
C24_Witness ==
    /\ spc = "done"
    /\ ~serr
    /\ ScenarioDObject
    /\ ~isEndpointSlicePermanentlyUnexportable(endpointSlice)
    /\ IntentValid(svcExportGet)
    /\ SliceIssued({"assignLabel"}, {"ok"})
    /\ SliceIssued({"create"}, {"ok"})
    /\ ProjectionNamedByLabel(sreq)
    /\ slices[sreq].labels[endpointSliceUniqueNameLabel] =
          formatFleetUniqueName(memberClusterID, sreq)

\* The EndpointSlice sid is in the namespace of the ServiceExport id and in
\* use by the Service of its name.
Governs(id, sid) ==
    /\ slices[sid] # NoObj
    /\ sid.namespace = id.namespace
    /\ LabelValue(slices[sid].labels, LabelServiceName) = id.name

\* The pass's copy carries a unique name and is in use by a Service.
CopyExported ==
    /\ endpointSlice # NoObj
    /\ HasLabel(endpointSlice.labels, endpointSliceUniqueNameLabel)
    /\ HasLabel(endpointSlice.labels, LabelServiceName)

\* C25: Scenario E.  When the governing Export Intent of an exported
\* Dependent Object changes from Valid to not Valid, the fan-out of the
\* change enqueues the object; and a pass on an exported object whose intent
\* is not Valid, if it returns no error, has deleted the object's Hub
\* Projection and removed its unique-name label.
C25_ScenarioE ==
    /\ [][\A id \in Ids : \A sid \in SliceIds :
            (/\ Governs(id, sid)
             /\ ProjectionNamedByLabel(sid)
             /\ IntentValid(svcExports[id])
             /\ ~IntentValid(svcExports'[id])) => sid \in queue']_vars
    /\ [][(ReturnsNoError /\ CopyExported /\ ~IntentValid(StoredIntent)) =>
            /\ slices'[sreq] # NoObj
            /\ ~HasUniqueName(sreq)'
            /\ hubSlices'[<<hubNS, endpointSlice.labels[endpointSliceUniqueNameLabel]>>]
                  = NoObj]_vars

\* C26: fan-out completeness.  On any change of an Export Intent every
\* Dependent Object of the intent's namespace whose service-name label is
\* the intent's name is enqueued, and no other Dependent Object is enqueued
\* by the change.
C26_FanOutComplete ==
    [][\A id \in Ids :
          svcExports'[id] # svcExports[id] =>
              \A sid \in SliceIds :
                  /\ Governs(id, sid) => sid \in queue'
                  /\ ~Governs(id, sid) => (sid \in queue' => sid \in queue)]_vars

\* The decision of the current pass is Skip.
DecidedSkip == decided # None /\ decided.op = shouldSkipEndpointSliceOp

\* C27: a Skip outcome has no side effects.  The step that decides Skip
\* ends the pass with no error and leaves the member store and the hub store
\* as they are, and a pass that decided Skip has issued no create, update or
\* delete to either store.
C27_SkipHasNoSideEffects ==
    /\ [][(spc = "decide" /\ DecidedSkip') =>
            /\ spc' = "done"
            /\ ~serr'
            /\ slices' = slices
            /\ hubSlices' = hubSlices
            /\ svcExports' = svcExports]_vars
    /\ [](DecidedSkip => (sliceOps = <<>> /\ spc = "done" /\ ~serr))

\* A pass skipped an object in use by a Service whose intent is not Valid.
C27_Witness ==
    /\ spc = "done"
    /\ ~serr
    /\ DecidedSkip
    /\ sliceOps = <<>>
    /\ slices[sreq] = endpointSlice
    /\ HasLabel(endpointSlice.labels, LabelServiceName)
    /\ svcExportGet \notin {NoObj, GetError, NotFetched}
    /\ ~IntentValid(svcExportGet)

\* What the hub holds at key k apart from the relations its reference records.
Content(hs, k) ==
    IF hs[k] = NoObj THEN NoObj
    ELSE [hs[k] EXCEPT !.reference.resourceVersion = "", !.reference.uid = ""]

\* C28: absence of the subject is a no-op success.  A pass whose Get of the
\* ServiceExport, or of the EndpointSlice, named by the request answers not
\* found returns no error and leaves the member store and the hub store as
\* they are, an EndpointSliceExport left behind for the object included; it
\* has issued no write or delete to either store.
C28_AbsenceIsNoOp ==
    /\ [][\A id \in Ids :
            (GetSvcExport(id) /\ svcExports[id] = NoObj /\ faults' = faults) =>
                /\ pc' = "done"
                /\ ~err'
                /\ hubOps' = <<>>
                /\ svcExports' = svcExports
                /\ svcs' = svcs
                /\ hub' = hub]_vars
    /\ [][\A sid \in SliceIds :
            (GetEndpointSlice(sid) /\ slices[sid] = NoObj /\ faults' = faults) =>
                /\ spc' = "done"
                /\ ~serr'
                /\ sliceOps' = <<>>
                /\ slices' = slices
                /\ svcExports' = svcExports
                /\ \A k \in SliceHubKeys :
                      Content(hubSlices', k) = Content(hubSlices, k)]_vars
    /\ []((spc = "done" /\ endpointSlice = NoObj) => sliceOps = <<>>)

\* A pass found no EndpointSlice while an EndpointSliceExport written for it
\* is still on the hub, and returned without error.
C28_Witness ==
    /\ spc = "done"
    /\ ~serr
    /\ endpointSlice = NoObj
    /\ slices[sreq] = NoObj
    /\ sliceOps = <<>>
    /\ \E k \in SliceHubKeys :
          /\ hubSlices[k] # NoObj
          /\ hubSlices[k].reference.name = sreq.name

\* A pass found no ServiceExport and returned without error.
AbsentIntentPassed ==
    /\ pc = "done"
    /\ ~err
    /\ svcExports[req] = NoObj
    /\ hubOps = <<>>
    /\ quiet

\* A step of the pass that writes the ServiceExport to the member store.
SvcExportWrite ==
    \/ RemoveSvcExportCleanupFinalizer
    \/ MarkSvcExportAsInvalid
    \/ AddCleanupFinalizer

\* A step of the pass that writes the EndpointSlice to the member store.
EndpointSliceWrite ==
    \/ AssignUniqueNameAsLabel
    \/ UnexportEndpointSliceRemoveLabel

\* C29: no lost update under a concurrent external change.  When the
\* ServiceExport or the EndpointSlice has been changed in the member store
\* since the pass read it, the write of the pass (finalizer added or removed,
\* conditions, unique name label added or removed) is refused, the member
\* store keeps the changed object as it is, and the pass returns the error
\* at that step with no second attempt.
C29_NoLostUpdate ==
    /\ [][(SvcExportWrite /\ svcExports[req] # NoObj /\ stale) =>
            /\ svcExports' = svcExports
            /\ hub' = hub
            /\ pc' = "done"
            /\ err']_vars
    /\ [][(EndpointSliceWrite /\ slices[sreq] # NoObj /\ ~copyCurrent) =>
            /\ slices' = slices
            /\ sliceOps' # sliceOps
            /\ sliceOps'[Len(sliceOps')].outcome = "conflict"
            /\ spc' = "done"
            /\ serr']_vars

\* A pass whose write of the unique name label was refused because the
\* EndpointSlice had changed since it was read: the store holds the changed
\* object and the pass has returned the error.
C29_Witness ==
    /\ spc = "done"
    /\ serr
    /\ SliceIssued({"assignLabel", "removeLabel"}, {"conflict"})
    /\ slices[sreq] # NoObj
    /\ slices[sreq] # endpointSlice
    /\ ~copyCurrent

\* A pass whose write of the ServiceExport was refused because the
\* ServiceExport had changed since it was read.
SvcExportWriteRefused ==
    /\ pc = "done"
    /\ err
    /\ markerWrite = "failed"
    /\ svcExports[req] # NoObj
    /\ faults = MaxFaults

\* The hub key of the EndpointSliceExport of the EndpointSlice the pass
\* follows: the unique name its label holds, else the name formatted for it.
ownEndpointSliceExportKey ==
    IF endpointSlice' # NoObj /\ HasLabel(endpointSlice'.labels, endpointSliceUniqueNameLabel)
    THEN endpointSliceExportKey(endpointSlice'.labels[endpointSliceUniqueNameLabel])
    ELSE endpointSliceExportKey(formatFleetUniqueName(memberClusterID, sreq'))

EndpointSlicePassesDoNotInterfere ==
    [][SliceReconcile =>
        /\ \A sid \in SliceIds \ {sreq'} : slices'[sid] = slices[sid]
        /\ \A k \in SliceHubKeys \ {ownEndpointSliceExportKey} :
              Content(hubSlices', k) = Content(hubSlices, k)]_vars

\* A store call of the step answered with an error.
StoreErrorOccurs == faults' < faults

\* C31: no error is swallowed except absence.  A step of a pass in which a
\* store call fails with an error ends the pass with the error, which puts
\* the request back in the queue; and when the List of the fan-out of an
\* intent change fails, the EndpointSlices the changed ServiceExport governs
\* are in the queue all the same.
C31_NoErrorSwallowed ==
    /\ [][\A id \in Ids :
            (IntentChange(id) /\ StoreErrorOccurs) =>
                \A sid \in SliceIds : Governs(id, sid) => sid \in queue']_vars
    /\ [][(SliceReconcile /\ StoreErrorOccurs) =>
            (spc' = "done" /\ serr' /\ sreq' \in queue')]_vars
    /\ [][(Reconcile /\ StoreErrorOccurs) => (pc' = "done" /\ err')]_vars

\* The unique name of the EndpointSlice the pass follows: the value of the
\* label on the pass's copy, else the name the pass assigned.
uniqueNameOfPass ==
    IF endpointSlice # NoObj /\ HasLabel(endpointSlice.labels, endpointSliceUniqueNameLabel)
    THEN endpointSlice.labels[endpointSliceUniqueNameLabel]
    ELSE fleetUniqueName

\* Every hub call the EndpointSlice pass has issued names an object of the
\* hub namespace whose name is the unique name of the EndpointSlice, which
\* is not empty; the hub holds EndpointSliceExports under no other key.
EndpointSliceExportsInHubNamespace ==
    /\ \A i \in 1..Len(sliceOps) :
          sliceOps[i].store = "hub" =>
              /\ sliceOps[i].name # ""
              /\ sliceOps[i].name = uniqueNameOfPass
    /\ \A k \in SliceHubKeys :
          hubSlices[k] # NoObj =>
              /\ hubSlices[k].namespace = hubNS
              /\ hubSlices[k].name # ""
              /\ k = <<hubSlices[k].namespace, hubSlices[k].name>>

\* C32: every hub create, update and delete of either reconciler names an
\* object of the hub namespace of this member cluster, under the name
\* formatted for the ServiceExport, or under the unique name the label of
\* the EndpointSlice holds; no hub call names an object of another
\* namespace or without a name.
C32_HubWritesInReservedNamespace ==
    /\ \A i \in 1..Len(hubOps) :
          hubOps[i].key = <<hubNS, formatInternalSvcExportName(req)>>
    /\ EndpointSliceExportsInHubNamespace

\* The decision of the current pass is Continue.
DecidedContinue == decided # None /\ decided.op = noSkipOrUnexportNeededOp

\* After the step the EndpointSliceExport under the unique name of the
\* stored EndpointSlice records the resource version the store holds.
ReferenceCurrentAfter ==
    /\ HasUniqueName(sreq)'
    /\ \E k \in SliceHubKeys :
          /\ k = <<hubNS, slices'[sreq].labels[endpointSliceUniqueNameLabel]>>
          /\ hubSlices'[k] # NoObj
          /\ hubSlices'[k].reference.resourceVersion = "store"

\* C33: the provenance reference is current.  When a pass that decided
\* Continue returns no error and nothing outside the pass changed the
\* EndpointSlice while it ran, the resource version in the reference of the
\* EndpointSliceExport is the resource version of the EndpointSlice in the
\* member store at the end of the pass, the pass that assigns the unique
\* name label included.
C33_ProvenanceCurrent ==
    [][(ReturnsNoError /\ DecidedContinue /\ slices'[sreq] # NoObj)
          => ReferenceCurrentAfter]_vars

\* The ServiceExport the pass read is being deleted.
CopyBeingDeleted == IF svcExport = NoObj THEN FALSE ELSE svcExport.deletionTimestamp

\* The step stores the cleanup finalizer on the ServiceExport of the pass.
MarkerAdded ==
    /\ svcExports[req] # NoObj
    /\ svcExports'[req] # NoObj
    /\ ~hasSvcExportCleanupFinalizer(svcExports[req])
    /\ hasSvcExportCleanupFinalizer(svcExports'[req])

\* The step issues a Create or an Update to the hub.
HubWriteIssued ==
    /\ Len(hubOps') = Len(hubOps) + 1
    /\ hubOps'[Len(hubOps')].op \in {"create", "update"}

\* C34: a ServiceExport that is being deleted is never exported.  No step
\* of a pass that read a ServiceExport with the deletion timestamp set adds
\* the cleanup finalizer to it or issues a Create or Update of its
\* InternalServiceExport, a ServiceExport without the cleanup finalizer that
\* another finalizer keeps in the store included.
C34_DeletedIntentNotExported ==
    [][(Reconcile /\ CopyBeingDeleted) => (~MarkerAdded /\ ~HubWriteIssued)]_vars

\* C35: when the Get of the governing ServiceExport fails with an error
\* other than not found, the pass returns the error at that step and has
\* issued no write or delete to the member store or the hub: no unexport,
\* no unique name label, no EndpointSliceExport.
C35_IntentGetErrorEndsPass ==
    /\ [][(ShouldSkipOrUnexportEndpointSlice /\ svcExportGet' = GetError) =>
            /\ spc' = "done"
            /\ serr'
            /\ sliceOps' = <<>>
            /\ slices' = slices
            /\ hubSlices' = hubSlices]_vars
    /\ [][(svcExportGet = GetError /\ svcExportGet' = GetError) =>
            (sliceOps' = <<>> /\ spc' = "done")]_vars

\* The Get of the ServiceExport failed for an EndpointSlice that is exported
\* under its unique name: the pass has returned the error, and the label and
\* the EndpointSliceExport are where they were.
C35_Witness ==
    /\ spc = "done"
    /\ serr
    /\ svcExportGet = GetError
    /\ sliceOps = <<>>
    /\ slices[sreq] = endpointSlice
    /\ ProjectionNamedByLabel(sreq)

\* The pass is on the path of a Service that is gone or not eligible.
SourceAbsentOrIneligible == branch \in {"notFound", "ineligible"}

\* The step is a failure of unexportSvc on that path, or of the Get of the
\* Service: the hub Delete or the Update that removes the finalizer answers
\* an error, or the Get answers an error other than not found.
UnexportOrGetSvcFails ==
    \/ UnexportSvc /\ SourceAbsentOrIneligible /\ StoreErrorOccurs
    \/ RemoveSvcExportCleanupFinalizer /\ SourceAbsentOrIneligible
          /\ svcExports' = svcExports
    \/ GetSvc /\ StoreErrorOccurs

\* C36: when unexportSvc fails on the path of a Service that is gone or not
\* eligible, or the Get of the Service fails with an error other than not
\* found, the pass returns the error at that step, and the ServiceExport in
\* the store has the conditions and the cleanup finalizer it had when the
\* pass began, unless something outside the pass changed it.
C36_FailedTeardownLeavesIntent ==
    [][UnexportOrGetSvcFails =>
          /\ pc' = "done"
          /\ err'
          /\ svcExports' = svcExports
          /\ quiet =>
                /\ svcExports'[req] # NoObj
                /\ hasSvcExportCleanupFinalizer(svcExports'[req]) = hadFinalizer
                /\ svcExports'[req].conditions = condsBefore]_vars

\* unexportSvc failed at its hub Delete for a ServiceExport whose Service is
\* gone or not eligible: the pass has returned the error and the ServiceExport
\* still carries the cleanup finalizer and the conditions it had.
C36_Witness ==
    /\ QuietDone
    /\ err
    /\ SourceAbsentOrIneligible
    /\ Issued({"delete"}, {"error"})
    /\ hadFinalizer
    /\ HasMarker(req)
    /\ svcExports[req].conditions = condsBefore

\* The finalizers of fs that are not the cleanup finalizer.
OtherFinalizers(fs) == SelectSeq(fs, LAMBDA f : f # svcExportCleanupFinalizer)

\* The conditions of conds whose type is not Valid.
OtherConditions(conds) == SelectSeq(conds, LAMBDA c : c.type # ServiceExportValid)

\* The labels of an EndpointSlice apart from the unique name label.
OtherLabels(labels) == WithoutLabel(labels, endpointSliceUniqueNameLabel)

\* C37: bookkeeping writes touch only their own field.  A write of the pass
\* that adds or removes the cleanup finalizer leaves the other finalizers and
\* the conditions of the ServiceExport as they are and never stores the
\* cleanup finalizer twice; a write that marks the ServiceExport invalid
\* leaves the conditions of every type but Valid, and the finalizers, as
\* they are; a write that assigns or removes the unique name label leaves
\* every other label of the EndpointSlice, the Service name label included,
\* and the rest of the object as it is.
C37_BookkeepingWritesOwnField ==
    /\ [][(/\ AddCleanupFinalizer \/ RemoveSvcExportCleanupFinalizer
           /\ svcExports[req] # NoObj
           /\ svcExports'[req] # NoObj) =>
            /\ OtherFinalizers(svcExports'[req].finalizers)
                  = OtherFinalizers(svcExports[req].finalizers)
            /\ Cardinality({i \in 1..Len(svcExports'[req].finalizers) :
                  svcExports'[req].finalizers[i] = svcExportCleanupFinalizer}) <= 1
            /\ svcExports'[req].conditions = svcExports[req].conditions
            /\ svcExports'[req].deletionTimestamp = svcExports[req].deletionTimestamp]_vars
    /\ [][(MarkSvcExportAsInvalid /\ svcExports[req] # NoObj /\ svcExports'[req] # NoObj) =>
            /\ OtherConditions(svcExports'[req].conditions)
                  = OtherConditions(svcExports[req].conditions)
            /\ svcExports'[req].finalizers = svcExports[req].finalizers
            /\ svcExports'[req].deletionTimestamp = svcExports[req].deletionTimestamp]_vars
    /\ [][(EndpointSliceWrite /\ slices[sreq] # NoObj) =>
            /\ slices'[sreq] # NoObj
            /\ OtherLabels(slices'[sreq].labels) = OtherLabels(slices[sreq].labels)
            /\ slices'[sreq].deletionTimestamp = slices[sreq].deletionTimestamp
            /\ slices'[sreq].addressType = slices[sreq].addressType]_vars

\* A pass removed the cleanup finalizer from a ServiceExport that another
\* finalizer holds and that carries a condition of another type: both are
\* still there.
C37_Witness ==
    /\ QuietDone
    /\ ~err
    /\ hadFinalizer
    /\ svcExports[req] # NoObj
    /\ ~hasSvcExportCleanupFinalizer(svcExports[req])
    /\ OtherFinalizers(svcExports[req].finalizers) = <<otherFinalizer>>
    /\ OtherConditions(svcExports[req].conditions) = <<otherCondition>>

====
